---- MODULE Spec2Model ----
(***************************************************************************)
(* Model of symmetri's battery time-series engine:                         *)
(*   - aggregate_battery_metrics (src/src/aggregate.rs): the per-timestamp *)
(*     merge of battery metric samples;                                    *)
(*   - average_rates, bucket_span_seconds, bucket_start and                *)
(*     estimate_runtime_hours (src/src/cli_helpers.rs);                    *)
(*   - build_timeframe (src/src/timeframe.rs);                             *)
(*   - the sample store (src/src/db.rs) and collect_once                   *)
(*     (src/src/collector.rs).                                             *)
(* f64 values are modelled as exact rationals <<n, d>> in lowest terms     *)
(* with d > 0, and beyond 2^53 as Huge(hi, lo) with IEEE 754 rounding;     *)
(* Option<T> is <<>> (None) or <<v>> (Some(v)); a String is the sequence   *)
(* of its ASCII codes.                                                     *)
(***************************************************************************)
EXTENDS Integers, Sequences, FiniteSets, TLC

VARIABLES
    metrics,      \* aggregate_battery_metrics: the input slice
    aggregated,   \* aggregate_battery_metrics: the returned Vec
    pc,           \* "call" before aggregate_battery_metrics runs, "done" after
    samples,      \* average_rates: the input samples
    iter,         \* average_rates: how many samples the filter iterator has consumed
    previous,     \* average_rates: Some(previous sample), None before the first
    discharge,    \* average_rates: the discharge RateAccumulator
    charge,       \* average_rates: the charge RateAccumulator
    rates,        \* average_rates: Some(the returned AverageRates), None before
    rpc,          \* average_rates: "start", "walk", "done"; "idle" when not called
    timeframe,    \* bucket_span_seconds: the Timeframe it is given
    bucket_seconds,   \* the width bucket_span_seconds returned, 0 before
    bucket_ts,    \* bucket_start: the timestamp it is given
    offset_seconds,   \* bucket_start: the local UTC offset chrono reports at bucket_ts
    bucket,       \* bucket_start: Some(epoch second of the returned DateTime), None before
    bpc,          \* "span" before bucket_span_seconds, "start" before bucket_start, "done"
    avg_discharge_w,  \* estimate_runtime_hours: the rate it is given
    current_sample,   \* estimate_runtime_hours: the sample it is given
    est_runtime_hours,    \* Some(what estimate_runtime_hours returned), None before
    epc,          \* "call" before estimate_runtime_hours runs, "done" after
    hours,        \* build_timeframe: argument
    days,         \* build_timeframe: argument
    months,       \* build_timeframe: argument
    all_time,     \* build_timeframe: argument
    built,        \* Some(the Result build_timeframe returned), None before
    tpc,          \* "call" before build_timeframe runs, "done" after
    samples_table,    \* db.rs: the rows of table samples, in rowid order
    metric_samples,   \* db.rs: the rows of table metric_samples, in rowid order
    db_call,      \* the last database operation and its arguments
    db_result     \* Some(what the last query returned), None for a statement

mergeVars == <<metrics, aggregated, pc>>

rateVars == <<samples, iter, previous, discharge, charge, rates, rpc>>

planVars == <<timeframe, bucket_seconds, bucket_ts, offset_seconds, bucket, bpc>>

runtimeVars == <<avg_discharge_w, current_sample, est_runtime_hours, epc>>

buildVars == <<hours, days, months, all_time, built, tpc>>

storeVars == <<samples_table, metric_samples, db_call, db_result>>

vars == <<metrics, aggregated, pc, samples, iter, previous, discharge, charge, rates, rpc,
          timeframe, bucket_seconds, bucket_ts, offset_seconds, bucket, bpc,
          avg_discharge_w, current_sample, est_runtime_hours, epc,
          hours, days, months, all_time, built, tpc,
          samples_table, metric_samples, db_call, db_result>>

(***************************************************************************)
(* Option<T>                                                               *)
(***************************************************************************)
None == <<>>

Some(v) == <<v>>

IsSome(o) == Len(o) = 1

Unwrap(o) == o[1]

(***************************************************************************)
(* f64 as exact rationals                                                  *)
(***************************************************************************)
Abs(x) == IF x < 0 THEN -x ELSE x

RECURSIVE Gcd(_, _)
Gcd(a, b) == IF b = 0 THEN a ELSE Gcd(b, a % b)

Rat(n, d) ==
    LET g == Gcd(Abs(n), Abs(d))
        s == IF d < 0 THEN -1 ELSE 1
    IN  <<(s * n) \div g, (s * d) \div g>>

F(n) == <<n, 1>>

RatAdd(a, b) == Rat(a[1] * b[2] + b[1] * a[2], a[2] * b[2])

RatSub(a, b) == Rat(a[1] * b[2] - b[1] * a[2], a[2] * b[2])

RatMul(a, b) == Rat(a[1] * b[1], a[2] * b[2])

RatDiv(a, b) == Rat(a[1] * b[2], a[2] * b[1])

RatLt(a, b) == a[1] * b[2] < b[1] * a[2]

RatLe(a, b) == a[1] * b[2] <= b[1] * a[2]

\* f64::floor, as an integer
Floor(r) == r[1] \div r[2]

(***************************************************************************)
(* f64 beyond 2^53, where not every whole number is an f64: Huge(hi, lo)   *)
(* is hi * 2^53 + lo for hi >= 1 and a whole lo far below 2^53.  The f64   *)
(* values of [2^53, 2^54) are 2 apart, those of [2^54, 2^55) are 4 apart,  *)
(* and so on; an addition rounds its exact result to the nearest of them,  *)
(* a tie to the one with the even mantissa (IEEE 754 round-to-nearest-even)*)
(***************************************************************************)
Huge(hi, lo) == <<lo, 0, hi>>

IsHuge(x) == Len(x) = 3

\* the distance between neighbouring f64 values at hi * 2^53
RECURSIVE Ulp(_)
Ulp(hi) == IF hi <= 1 THEN 2 ELSE 2 * Ulp(hi \div 2)

\* lo rounded to a multiple of ulp, ties to the even multiple
RoundEven(lo, ulp) ==
    LET q == lo \div ulp
        r == lo % ulp
    IN  IF 2 * r < ulp THEN q * ulp
        ELSE IF 2 * r > ulp THEN (q + 1) * ulp
        ELSE IF q % 2 = 0 THEN q * ulp
        ELSE (q + 1) * ulp

\* a + b in f64: exact for the small values of the model, rounded when the
\* result lies beyond 2^53 (the small addend is then a whole number)
F64Add(a, b) ==
    IF IsHuge(a) /\ IsHuge(b)
    THEN Huge(a[3] + b[3], RoundEven(a[1] + b[1], Ulp(a[3] + b[3])))
    ELSE IF IsHuge(a) THEN Huge(a[3], RoundEven(a[1] + Floor(b), Ulp(a[3])))
    ELSE IF IsHuge(b) THEN Huge(b[3], RoundEven(b[1] + Floor(a), Ulp(b[3])))
    ELSE RatAdd(a, b)

(***************************************************************************)
(* Strings as ASCII code sequences                                         *)
(***************************************************************************)
RECURSIVE StrLess(_, _)
StrLess(a, b) ==
    IF b = <<>> THEN FALSE
    ELSE IF a = <<>> THEN TRUE
    ELSE IF a[1] # b[1] THEN a[1] < b[1]
    ELSE StrLess(Tail(a), Tail(b))

BAT0 == <<66, 65, 84, 48>>

BAT1 == <<66, 65, 84, 49>>

BAT10 == <<66, 65, 84, 49, 48>>

Discharging == <<68, 105, 115, 99, 104, 97, 114, 103, 105, 110, 103>>

Charging == <<67, 104, 97, 114, 103, 105, 110, 103>>

charging == <<99, 104, 97, 114, 103, 105, 110, 103>>

discharging == <<100, 105, 115, 99, 104, 97, 114, 103, 105, 110, 103>>

\* u8::to_ascii_lowercase
ToAsciiLower(c) == IF c >= 65 /\ c <= 90 THEN c + 32 ELSE c

\* str::eq_ignore_ascii_case
EqIgnoreAsciiCase(a, b) ==
    /\ Len(a) = Len(b)
    /\ \A i \in 1..Len(a) : ToAsciiLower(a[i]) = ToAsciiLower(b[i])

mixed == <<109, 105, 120, 101, 100>>

Plus == 43

(***************************************************************************)
(* MetricSample (src/src/metrics.rs) with the battery kinds aggregate.rs   *)
(* matches on; details is the JSON object {"status": ...}, kept as the     *)
(* Option<String> that details.get("status").as_str() reads back.          *)
(***************************************************************************)
BatteryPercentage == "BatteryPercentage"

BatteryCapacity == "BatteryCapacity"

BatteryHealth == "BatteryHealth"

BatteryEnergyNow == "BatteryEnergyNow"

BatteryEnergyFull == "BatteryEnergyFull"

BatteryEnergyFullDesign == "BatteryEnergyFullDesign"

MetricSample(ts, kind, source, value, unit, status) ==
    [ts |-> ts, kind |-> kind, source |-> source, value |-> value,
     unit |-> unit, status |-> status]

(***************************************************************************)
(* aggregate.rs helpers                                                    *)
(***************************************************************************)
RECURSIVE SumLoop(_, _, _, _)
SumLoop(flat, i, total, has_value) ==
    IF i > Len(flat)
    THEN IF has_value THEN Some(total) ELSE None
    ELSE SumLoop(flat, i + 1, F64Add(total, Unwrap(flat[i])), TRUE)

\* mutant: a sum of nothing is reported as zero
sum_or_zero(values) == SumLoop(SelectSeq(values, IsSome), 1, F(0), TRUE)

sum_or_none(values) == SumLoop(SelectSeq(values, IsSome), 1, F(0), FALSE)

RECURSIVE AvgLoop(_, _, _, _)
AvgLoop(flat, i, total, count) ==
    IF i > Len(flat)
    THEN IF count = 0 THEN None ELSE Some(RatDiv(total, F(count)))
    ELSE AvgLoop(flat, i + 1, F64Add(total, Unwrap(flat[i])), count + 1)

avg_or_none(values) == AvgLoop(SelectSeq(values, IsSome), 1, F(0), 0)

\* mutant: a zero denominator yields 0 % instead of no value
percent_zero_denominator(numerator, denominator) ==
    IF IsSome(numerator) /\ IsSome(denominator)
    THEN IF Unwrap(denominator) = F(0)
         THEN Some(F(0))
         ELSE Some(RatMul(RatDiv(Unwrap(numerator), Unwrap(denominator)), F(100)))
    ELSE None

percent(numerator, denominator) ==
    IF IsSome(numerator) /\ IsSome(denominator) /\ Unwrap(denominator) # F(0)
    THEN Some(RatMul(RatDiv(Unwrap(numerator), Unwrap(denominator)), F(100)))
    ELSE None

\* mutant: the filter matches the unit of the kind, not the kind
KindValuesByUnit(group, kind) ==
    LET wanted == IF kind \in {"BatteryPercentage", "BatteryCapacity", "BatteryHealth"}
                  THEN "%" ELSE "Wh"
        picked == SelectSeq(group, LAMBDA m : m.unit = wanted)
    IN  [i \in 1..Len(picked) |-> picked[i].value]

\* group.iter().filter(|m| m.kind == kind) ... .map(|m| m.value)
KindValues(group, kind) ==
    LET picked == SelectSeq(group, LAMBDA m : m.kind = kind)
    IN  [i \in 1..Len(picked) |-> picked[i].value]

\* sources.sort(): ascending byte order
RECURSIVE InsertSorted(_, _)
InsertSorted(sorted, x) ==
    IF sorted = <<>> THEN <<x>>
    ELSE IF StrLess(x, Head(sorted)) THEN <<x>> \o sorted
    ELSE <<Head(sorted)>> \o InsertSorted(Tail(sorted), x)

\* mutant: the names are left in input order
SourcesUnsorted(names) == names

RECURSIVE SortSources(_)
SortSources(names) ==
    IF names = <<>> THEN <<>>
    ELSE InsertSorted(SortSources(Tail(names)), Head(names))

\* sources.dedup(): drops every element equal to its predecessor
RECURSIVE Dedup(_)
Dedup(names) ==
    IF Len(names) <= 1 THEN names
    ELSE IF names[1] = names[2] THEN Dedup(Tail(names))
    ELSE <<names[1]>> \o Dedup(Tail(names))

\* sources.join("+")
RECURSIVE Join(_)
Join(names) ==
    IF names = <<>> THEN <<>>
    ELSE IF Len(names) = 1 THEN names[1]
    ELSE names[1] \o <<Plus>> \o Join(Tail(names))

CombinedSource(group) ==
    Join(Dedup(SortSources([i \in 1..Len(group) |-> group[i].source])))

\* the BTreeSet of the statuses present in the group
StatusSet(group) ==
    {Unwrap(group[i].status) : i \in {j \in 1..Len(group) : IsSome(group[j].status)}}

\* mutant: several distinct statuses yield the first of them, never "mixed"
GroupStatusFirst(group) ==
    LET statuses == StatusSet(group)
    IN  IF statuses = {} THEN None
        ELSE Some(CHOOSE s \in statuses : \A o \in statuses : o = s \/ StrLess(s, o))

\* mutant: the status of the last reading that carries one
GroupStatusLatest(group) ==
    LET carrying == SelectSeq(group, LAMBDA m : IsSome(m.status))
    IN  IF carrying = <<>> THEN None ELSE carrying[Len(carrying)].status

GroupStatus(group) ==
    LET statuses == StatusSet(group)
    IN  IF statuses = {} THEN None
        ELSE IF Cardinality(statuses) = 1
             THEN Some(CHOOSE s \in statuses : TRUE)
             ELSE Some(mixed)

\* mutant: the raw percentages win over the energy ratio
ComputedPercentageRawFirst(group) ==
    LET raw == avg_or_none(KindValues(group, BatteryPercentage))
    IN  IF raw = None
        THEN percent(sum_or_none(KindValues(group, BatteryEnergyNow)),
                     sum_or_none(KindValues(group, BatteryEnergyFull)))
        ELSE raw

ComputedPercentage(group) ==
    LET computed == percent(sum_or_none(KindValues(group, BatteryEnergyNow)),
                            sum_or_none(KindValues(group, BatteryEnergyFull)))
    IN  IF computed = None
        THEN avg_or_none(KindValues(group, BatteryPercentage))
        ELSE computed

ComputedHealth(group) ==
    LET computed == percent(sum_or_none(KindValues(group, BatteryEnergyFull)),
                            sum_or_none(KindValues(group, BatteryEnergyFullDesign)))
    IN  IF computed = None
        THEN avg_or_none(KindValues(group, BatteryHealth))
        ELSE computed

\* mutant: capacity follows the two-tier rule of percentage
AvgCapacityRatio(group) ==
    LET computed == percent(sum_or_none(KindValues(group, BatteryEnergyNow)),
                            sum_or_none(KindValues(group, BatteryEnergyFull)))
    IN  IF computed = None
        THEN avg_or_none(KindValues(group, BatteryCapacity))
        ELSE computed

AvgCapacity(group) == avg_or_none(KindValues(group, BatteryCapacity))

\* the body of the loop over by_timestamp: the metrics pushed for one group
AggregateGroup(ts, group) ==
    LET combined_source == CombinedSource(group)
        status == GroupStatus(group)
        Push(value, kind, unit) ==
            IF IsSome(value)
            THEN <<MetricSample(ts, kind, combined_source, value, unit, status)>>
            ELSE <<>>
    IN  Push(ComputedPercentage(group), BatteryPercentage, "%")
        \o Push(AvgCapacity(group), BatteryCapacity, "%")
        \o Push(ComputedHealth(group), BatteryHealth, "%")
        \o Push(sum_or_none(KindValues(group, BatteryEnergyNow)), BatteryEnergyNow, "Wh")
        \o Push(sum_or_none(KindValues(group, BatteryEnergyFull)), BatteryEnergyFull, "Wh")
        \o Push(sum_or_none(KindValues(group, BatteryEnergyFullDesign)),
                BatteryEnergyFullDesign, "Wh")

\* by_timestamp.entry(OrderedFloat(metric.ts)).or_default().push(metric)
RECURSIVE ByTimestamp(_, _, _)
ByTimestamp(input, i, map) ==
    IF i > Len(input) THEN map
    ELSE LET metric == input[i]
         IN  ByTimestamp(input, i + 1,
                 IF metric.ts \in DOMAIN map
                 THEN [map EXCEPT ![metric.ts] = Append(@, metric)]
                 ELSE (metric.ts :> <<metric>>) @@ map)

\* for (ts_key, group) in by_timestamp: ascending key order
RECURSIVE AggregateGroups(_, _)
AggregateGroups(map, keys) ==
    IF keys = {} THEN <<>>
    ELSE LET ts == CHOOSE k \in keys : \A other \in keys : k <= other
         IN  AggregateGroup(ts, map[ts]) \o AggregateGroups(map, keys \ {ts})

\* mutant: maximal runs of equal timestamps are merged in input order, unsorted
RECURSIVE aggregate_consecutive_runs(_)
aggregate_consecutive_runs(input) ==
    IF input = <<>> THEN <<>>
    ELSE LET ts == input[1].ts
             n == CHOOSE k \in 1..Len(input) :
                      /\ \A i \in 1..k : input[i].ts = ts
                      /\ k = Len(input) \/ input[k + 1].ts # ts
         IN  AggregateGroup(ts, SubSeq(input, 1, n))
             \o aggregate_consecutive_runs(SubSeq(input, n + 1, Len(input)))

aggregate_battery_metrics(input) ==
    IF input = <<>> THEN <<>>
    ELSE LET by_timestamp == ByTimestamp(input, 1, <<>>)
         IN  AggregateGroups(by_timestamp, DOMAIN by_timestamp)

(***************************************************************************)
(* Inputs of the merge                                                     *)
(***************************************************************************)
MaxMetrics == 3

Timestamps == {1, 2}

Kinds == {BatteryPercentage, BatteryCapacity, BatteryHealth,
          BatteryEnergyNow, BatteryEnergyFull, BatteryEnergyFullDesign}

Values == {F(0), F(10)}

\* the batteries read at the second tick
LabelSources == {BAT1, BAT10}

Statuses == {None, Some(Discharging), Some(Charging), Some(charging)}

UnitOf(kind) ==
    IF kind \in {BatteryPercentage, BatteryCapacity, BatteryHealth} THEN "%" ELSE "Wh"

\* metrics of one battery at one tick: every kind, every value, also None
ValueMetrics ==
    {MetricSample(1, k, BAT0, v, UnitOf(k), Some(Discharging)) :
        k \in Kinds, v \in {None} \cup {Some(x) : x \in Values}}

\* energy readings of several batteries at the next tick: every source and status
LabelMetrics ==
    {MetricSample(2, BatteryEnergyNow, s, Some(F(10)), "Wh", st) :
        s \in LabelSources, st \in Statuses}

MetricDomain == ValueMetrics \cup LabelMetrics

\* bucket_span_seconds and bucket_start are not running
PlanIdle ==
    /\ timeframe = None
    /\ bucket_seconds = 0
    /\ bucket_ts = F(0)
    /\ offset_seconds = 0
    /\ bucket = None
    /\ bpc = "idle"

\* estimate_runtime_hours is not running
RuntimeIdle ==
    /\ avg_discharge_w = None
    /\ current_sample = None
    /\ est_runtime_hours = None
    /\ epc = "idle"

\* no database operation runs
StoreIdle ==
    /\ samples_table = <<>>
    /\ metric_samples = <<>>
    /\ db_call = <<"idle">>
    /\ db_result = None

\* build_timeframe is not running
BuildIdle ==
    /\ hours = 0
    /\ days = 0
    /\ months = 0
    /\ all_time = FALSE
    /\ built = None
    /\ tpc = "idle"

(***************************************************************************)
(* The merge as a state machine                                            *)
(***************************************************************************)
\* average_rates is not running
RatesIdle ==
    /\ samples = <<>>
    /\ iter = 0
    /\ previous = None
    /\ discharge = [delta |-> F(0), hours |-> F(0)]
    /\ charge = [delta |-> F(0), hours |-> F(0)]
    /\ rates = None
    /\ rpc = "idle"

InitMerge ==
    /\ \E n \in 0..MaxMetrics : metrics \in [1..n -> MetricDomain]
    /\ aggregated = <<>>
    /\ pc = "call"
    /\ RatesIdle
    /\ PlanIdle
    /\ RuntimeIdle
    /\ BuildIdle
    /\ StoreIdle

\* aggregate.rs 38-40: the early return on an empty slice
AggregateEmpty ==
    /\ pc = "call"
    /\ metrics = <<>>
    /\ aggregated' = aggregate_battery_metrics(metrics)
    /\ pc' = "done"
    /\ UNCHANGED metrics
    /\ UNCHANGED <<rateVars, planVars, runtimeVars, buildVars, storeVars>>

\* aggregate.rs 42-190: group by timestamp, merge each group
AggregateBatteryMetrics ==
    /\ pc = "call"
    /\ metrics # <<>>
    /\ aggregated' = aggregate_battery_metrics(metrics)
    /\ pc' = "done"
    /\ UNCHANGED metrics
    /\ UNCHANGED <<rateVars, planVars, runtimeVars, buildVars, storeVars>>

NextMerge == AggregateEmpty \/ AggregateBatteryMetrics

SpecMerge == InitMerge /\ [][NextMerge]_vars

(***************************************************************************)
(* The merge on readings whose order can matter: two ticks arriving in any *)
(* order, two batteries with different statuses and one without a status,  *)
(* and energies whose f64 sum depends on the order of its additions        *)
(* (2^53 Wh and 1 Wh: 2^53 + 1 rounds to 2^53, 1 + 1 + 2^53 is exact)      *)
(***************************************************************************)
OrderBatteries ==
    {<<BAT0, Some(Charging)>>, <<BAT1, Some(Discharging)>>, <<BAT1, None>>}

OrderReadings ==
    {<<BatteryEnergyNow, Some(Huge(1, 0))>>, <<BatteryEnergyNow, Some(F(1))>>,
     <<BatteryPercentage, Some(F(50))>>}

OrderDomain ==
    {MetricSample(ts, r[1], b[1], r[2], UnitOf(r[1]), b[2]) :
        ts \in Timestamps, b \in OrderBatteries, r \in OrderReadings}

InitOrder ==
    /\ \E n \in 0..MaxMetrics : metrics \in [1..n -> OrderDomain]
    /\ aggregated = <<>>
    /\ pc = "call"
    /\ RatesIdle
    /\ PlanIdle
    /\ RuntimeIdle
    /\ BuildIdle
    /\ StoreIdle

SpecOrder == InitOrder /\ [][NextMerge]_vars

(***************************************************************************)
(* Claims about the merge.  The expected values are computed from the      *)
(* input positions, not with the operators above.                          *)
(***************************************************************************)
EnergyKinds == {BatteryEnergyNow, BatteryEnergyFull, BatteryEnergyFullDesign}

\* the positions of the input readings of timestamp t
InputAt(t) == {i \in 1..Len(metrics) : metrics[i].ts = t}

\* those of a kind, and those of a kind that carry a value
OfKind(t, kind) == {i \in InputAt(t) : metrics[i].kind = kind}

Present(t, kind) == {i \in OfKind(t, kind) : metrics[i].value # None}

\* the input values are whole numbers: their sum over a set of positions
RECURSIVE IntSum(_)
IntSum(I) ==
    IF I = {} THEN 0
    ELSE LET i == CHOOSE x \in I : TRUE
         IN  metrics[i].value[1][1] + IntSum(I \ {i})

\* the positions of the merged metrics of timestamp t and a kind
Out(t, kind) == {j \in 1..Len(aggregated) : aggregated[j].ts = t /\ aggregated[j].kind = kind}

\* exactly one merged metric of that timestamp and kind, of value n / d
OutIs(t, kind, n, d) ==
    /\ Cardinality(Out(t, kind)) = 1
    /\ \A j \in Out(t, kind) :
          /\ aggregated[j].value # None
          /\ aggregated[j].value[1][1] * d = n * aggregated[j].value[1][2]

\* C1: each merged watt-hour field of a timestamp is the sum of the values of
\* that field present among the readings of the timestamp, and is absent (no
\* merged metric, not a zero) when none of them carries the field.
C1_EnergySums ==
    pc = "done" =>
        \A t \in Timestamps, k \in EnergyKinds :
            IF Present(t, k) = {}
            THEN Out(t, k) = {}
            ELSE OutIs(t, k, IntSum(Present(t, k)), 1)

C1_Witness ==
    /\ pc = "done"
    /\ \E t \in Timestamps :
          /\ Cardinality(Present(t, BatteryEnergyNow)) >= 2
          /\ IntSum(Present(t, BatteryEnergyNow)) = 20
          /\ OfKind(t, BatteryEnergyFull) # {}
          /\ Present(t, BatteryEnergyFull) = {}
          /\ Out(t, BatteryEnergyFull) = {}

\* the two-tier rule of percentage and health: num / den x 100 when both sums
\* are present and den is not zero, else the mean of the raw values, else absent
TwoTier(t, numKind, denKind, rawKind) ==
    LET num == Present(t, numKind)
        den == Present(t, denKind)
        raw == Present(t, rawKind)
    IN  IF num # {} /\ den # {} /\ IntSum(den) # 0
        THEN OutIs(t, rawKind, IntSum(num) * 100, IntSum(den))
        ELSE IF raw # {}
             THEN OutIs(t, rawKind, IntSum(raw), Cardinality(raw))
             ELSE Out(t, rawKind) = {}

\* C2: the merged percentage is (sum energy_now / sum energy_full) x 100 when
\* both sums are present and the energy_full sum is not zero (the raw values
\* are then unused); else the mean of the raw percentages present; else absent.
C2_Percentage ==
    pc = "done" =>
        \A t \in Timestamps :
            TwoTier(t, BatteryEnergyNow, BatteryEnergyFull, BatteryPercentage)

\* a ratio of 10 / 10 beside a raw percentage of 10: the merged value is 100
C2_Witness ==
    /\ pc = "done"
    /\ \E t \in Timestamps :
          /\ Present(t, BatteryEnergyNow) # {}
          /\ IntSum(Present(t, BatteryEnergyNow)) = 10
          /\ IntSum(Present(t, BatteryEnergyFull)) = 10
          /\ Present(t, BatteryPercentage) # {}
          /\ IntSum(Present(t, BatteryPercentage)) = 10
          /\ OutIs(t, BatteryPercentage, 100, 1)

\* the fallback: an energy_full sum of zero, the mean of the raw 0 and 10
C2_FallbackReached ==
    /\ pc = "done"
    /\ \E t \in Timestamps :
          /\ Present(t, BatteryEnergyFull) # {}
          /\ IntSum(Present(t, BatteryEnergyFull)) = 0
          /\ Cardinality(Present(t, BatteryPercentage)) = 2
          /\ OutIs(t, BatteryPercentage, 5, 1)

\* C3: the merged health_pct is (sum energy_full / sum energy_full_design) x 100
\* when both sums are present and the design sum is not zero; else the mean of
\* the raw health_pct values present; else absent.
C3_Health ==
    pc = "done" =>
        \A t \in Timestamps :
            TwoTier(t, BatteryEnergyFull, BatteryEnergyFullDesign, BatteryHealth)

\* a ratio of 10 / 10 beside a raw health_pct of 10: the merged value is 100
C3_Witness ==
    /\ pc = "done"
    /\ \E t \in Timestamps :
          /\ Present(t, BatteryEnergyFull) # {}
          /\ IntSum(Present(t, BatteryEnergyFull)) = 10
          /\ IntSum(Present(t, BatteryEnergyFullDesign)) = 10
          /\ Present(t, BatteryHealth) # {}
          /\ IntSum(Present(t, BatteryHealth)) = 10
          /\ OutIs(t, BatteryHealth, 100, 1)

C3_FallbackReached ==
    /\ pc = "done"
    /\ \E t \in Timestamps :
          /\ Present(t, BatteryEnergyFullDesign) = {}
          /\ Present(t, BatteryEnergyFull) # {}
          /\ Cardinality(Present(t, BatteryHealth)) = 2
          /\ OutIs(t, BatteryHealth, 5, 1)

\* C4: the merged capacity_pct is the mean of the capacity_pct values present
\* among the readings of the timestamp, absent when there is none, whatever the
\* energy fields of the group are.
C4_Capacity ==
    pc = "done" =>
        \A t \in Timestamps :
            LET raw == Present(t, BatteryCapacity)
            IN  IF raw # {}
                THEN OutIs(t, BatteryCapacity, IntSum(raw), Cardinality(raw))
                ELSE Out(t, BatteryCapacity) = {}

\* a capacity of 10 in a group whose energy ratio is 10 / 10, that is 100 %
C4_Witness ==
    /\ pc = "done"
    /\ \E t \in Timestamps :
          /\ IntSum(Present(t, BatteryEnergyNow)) = 10
          /\ IntSum(Present(t, BatteryEnergyFull)) = 10
          /\ Cardinality(Present(t, BatteryCapacity)) = 1
          /\ OutIs(t, BatteryPercentage, 100, 1)
          /\ OutIs(t, BatteryCapacity, 10, 1)

C4_MeanReached ==
    /\ pc = "done"
    /\ \E t \in Timestamps :
          /\ Cardinality(Present(t, BatteryCapacity)) = 2
          /\ Present(t, BatteryEnergyNow) # {}
          /\ OutIs(t, BatteryCapacity, 5, 1)

\* the distinct status strings carried by the readings of timestamp t
StatusesAt(t) == {metrics[i].status[1] : i \in {x \in InputAt(t) : metrics[x].status # None}}

\* C5: the merged status of a timestamp is "mixed" exactly when its readings
\* carry two or more distinct status strings (compared as stored, so case
\* matters), that string when they carry exactly one, absent when none.
C5_Status ==
    pc = "done" =>
        \A j \in 1..Len(aggregated) :
            LET given == StatusesAt(aggregated[j].ts)
                status == aggregated[j].status
            IN  /\ (status = Some(mixed)) <=> (Cardinality(given) >= 2)
                /\ Cardinality(given) = 1 => (status # None /\ status[1] \in given)
                /\ given = {} <=> status = None

\* "Charging" and "charging" at one timestamp merge to "mixed"
C5_Witness ==
    /\ pc = "done"
    /\ \E j \in 1..Len(aggregated) :
          /\ StatusesAt(aggregated[j].ts) = {Charging, charging}
          /\ aggregated[j].status = Some(mixed)

C5_SingleReached ==
    /\ pc = "done"
    /\ \E j \in 1..Len(aggregated) :
          /\ Cardinality(InputAt(aggregated[j].ts)) >= 2
          /\ StatusesAt(aggregated[j].ts) = {Charging}
          /\ \E i \in InputAt(aggregated[j].ts) : metrics[i].status = None
          /\ aggregated[j].status = Some(Charging)

\* a label cut at its '+' signs
RECURSIVE SplitLabel(_)
SplitLabel(label) ==
    IF \A k \in 1..Len(label) : label[k] # Plus
    THEN <<label>>
    ELSE LET k == CHOOSE x \in 1..Len(label) :
                      label[x] = Plus /\ \A y \in 1..(x - 1) : label[y] # Plus
         IN  <<SubSeq(label, 1, k - 1)>> \o SplitLabel(SubSeq(label, k + 1, Len(label)))

\* C6: the merged source label of a timestamp is the source names of its
\* readings joined with '+', strictly ascending (so each exactly once), and
\* holding no other name.
C6_SourceLabel ==
    pc = "done" =>
        \A j \in 1..Len(aggregated) :
            LET parts == SplitLabel(aggregated[j].source)
                names == {metrics[i].source : i \in InputAt(aggregated[j].ts)}
            IN  /\ {parts[k] : k \in 1..Len(parts)} = names
                /\ \A k \in 1..(Len(parts) - 1) : StrLess(parts[k], parts[k + 1])

\* BAT10, BAT1, BAT10 in this order merge to "BAT1+BAT10"
C6_Witness ==
    /\ pc = "done"
    /\ Len(metrics) = 3
    /\ metrics[1].ts = 2 /\ metrics[2].ts = 2 /\ metrics[3].ts = 2
    /\ metrics[1].source = BAT10 /\ metrics[2].source = BAT1 /\ metrics[3].source = BAT10
    /\ \E j \in 1..Len(aggregated) : aggregated[j].source = BAT1 \o <<Plus>> \o BAT10

\* C7: whatever the order of the input, the merged metrics are ascending by
\* timestamp, a timestamp yields at most one merged metric of a kind, and that
\* metric combines all the readings of the timestamp, also those that readings
\* of another timestamp separate in the input.
C7_OrderedGroups ==
    pc = "done" =>
        /\ \A i, j \in 1..Len(aggregated) :
              i < j => aggregated[i].ts <= aggregated[j].ts
        /\ \A t \in Timestamps, k \in Kinds : Cardinality(Out(t, k)) <= 1
        /\ \A j \in 1..Len(aggregated) : aggregated[j].ts \in {metrics[i].ts : i \in 1..Len(metrics)}
        /\ \A t \in Timestamps :
              Present(t, BatteryEnergyNow) # {} =>
                  OutIs(t, BatteryEnergyNow, IntSum(Present(t, BatteryEnergyNow)), 1)

\* timestamps 2, 1, 2 in the input: one event of timestamp 1, then one of 2
C7_Witness ==
    /\ pc = "done"
    /\ Len(metrics) = 3
    /\ metrics[1].ts = 2 /\ metrics[2].ts = 1 /\ metrics[3].ts = 2
    /\ Len(aggregated) >= 2
    /\ aggregated[1].ts = 1
    /\ OutIs(2, BatteryEnergyNow, 20, 1)

\* the field values of a merged sequence, its source labels left out
FieldValues(seq) ==
    [i \in 1..Len(seq) |->
        [ts |-> seq[i].ts, kind |-> seq[i].kind, value |-> seq[i].value,
         status |-> seq[i].status]]

C8_MixedReached ==
    /\ pc = "done"
    /\ Len(aggregated) >= 2
    /\ \E j \in 1..Len(aggregated) : aggregated[j].status = Some(mixed)
    /\ aggregate_battery_metrics(aggregated) = aggregated

(***************************************************************************)
(* average_rates (src/src/cli_helpers.rs)                                  *)
(***************************************************************************)
\* db::Sample, the fields the rate and runtime estimates read
Sample(ts, energy_now_wh, energy_full_wh, energy_full_design_wh, status) ==
    [ts |-> ts, energy_now_wh |-> energy_now_wh, energy_full_wh |-> energy_full_wh,
     energy_full_design_wh |-> energy_full_design_wh, status |-> status]

MAX_GAP_HOURS == Rat(5, 60)

\* RateAccumulator::default()
RateAccumulatorDefault == [delta |-> F(0), hours |-> F(0)]

\* mutant: the accumulator adds up per-pair rates and counts the pairs
record_pair_rate(acc, delta_wh, dt_hours) ==
    [delta |-> RatAdd(acc.delta, RatDiv(delta_wh, dt_hours)), hours |-> RatAdd(acc.hours, F(1))]

\* RateAccumulator::record
record(acc, delta_wh, dt_hours) ==
    [delta |-> RatAdd(acc.delta, delta_wh), hours |-> RatAdd(acc.hours, dt_hours)]

\* RateAccumulator::average
average(acc) ==
    IF acc.hours = F(0) \/ acc.delta = F(0)
    THEN None
    ELSE Some(RatDiv(acc.delta, acc.hours))

\* mutant: a sample without status is not taken as discharging
is_discharging_absent_false(sample) ==
    IF IsSome(sample.status)
    THEN EqIgnoreAsciiCase(Unwrap(sample.status), discharging)
    ELSE FALSE

is_discharging(sample) ==
    IF IsSome(sample.status)
    THEN EqIgnoreAsciiCase(Unwrap(sample.status), discharging)
    ELSE TRUE

\* mutant: a sample without status is taken as charging
is_charging_absent_true(sample) ==
    IF IsSome(sample.status)
    THEN EqIgnoreAsciiCase(Unwrap(sample.status), charging)
    ELSE TRUE

is_charging(sample) ==
    IF IsSome(sample.status)
    THEN EqIgnoreAsciiCase(Unwrap(sample.status), charging)
    ELSE FALSE

\* mutant: the iterator is not filtered and yields every sample
NextSampleUnfiltered(input, consumed) ==
    IF consumed < Len(input) THEN consumed + 1 ELSE 0

\* mutant: the iterator ends at the first sample without energy_now (take_while)
NextEnergyTakeWhile(input, consumed) ==
    IF consumed < Len(input) /\ IsSome(input[consumed + 1].energy_now_wh)
    THEN consumed + 1
    ELSE 0

\* samples.into_iter().filter(|s| s.energy_now_wh.is_some()).next(): the position
\* of the next sample the iterator yields after `consumed` samples, 0 when none
NextEnergy(input, consumed) ==
    LET later == {j \in (consumed + 1)..Len(input) : IsSome(input[j].energy_now_wh)}
    IN  IF later = {} THEN 0
        ELSE CHOOSE j \in later : \A k \in later : j <= k

\* mutant: a gap of exactly MAX_GAP_HOURS is rejected
GapStrictlyBelowMax(dt_hours) == RatLt(F(0), dt_hours) /\ RatLt(dt_hours, MAX_GAP_HOURS)

\* cli_helpers.rs 116: dt_hours > 0.0 && dt_hours <= MAX_GAP_HOURS
GapCounted(dt_hours) == RatLt(F(0), dt_hours) /\ RatLe(dt_hours, MAX_GAP_HOURS)

\* mutant: an out-of-order sample is dropped and previous stays
KeepPrevious(prev, current) == prev

\* cli_helpers.rs 112: previous = current
ResetPrevious(prev, current) == current

\* mutant: only the later sample of the pair is classified
AccumulatePairByCurrent(prev, current, dis, chg) ==
    LET dt_hours == RatDiv(RatSub(F(current.ts), F(prev.ts)), F(3600))
    IN  IF GapCounted(dt_hours)
        THEN LET delta == RatSub(Unwrap(current.energy_now_wh), Unwrap(prev.energy_now_wh))
             IN  IF RatLt(F(0), delta) /\ is_charging(current)
                 THEN <<dis, record(chg, delta, dt_hours)>>
                 ELSE IF RatLt(delta, F(0)) /\ is_discharging(current)
                      THEN <<record(dis, RatSub(F(0), delta), dt_hours), chg>>
                      ELSE <<dis, chg>>
        ELSE <<dis, chg>>

\* mutant: a pair whose energy does not change counts as discharging
AccumulatePairFlatDischarge(prev, current, dis, chg) ==
    LET dt_hours == RatDiv(RatSub(F(current.ts), F(prev.ts)), F(3600))
    IN  IF GapCounted(dt_hours)
        THEN LET delta == RatSub(Unwrap(current.energy_now_wh), Unwrap(prev.energy_now_wh))
             IN  IF RatLt(F(0), delta) /\ is_charging(prev) /\ is_charging(current)
                 THEN <<dis, record(chg, delta, dt_hours)>>
                 ELSE IF RatLe(delta, F(0)) /\ is_discharging(prev) /\ is_discharging(current)
                      THEN <<record(dis, RatSub(F(0), delta), dt_hours), chg>>
                      ELSE <<dis, chg>>
        ELSE <<dis, chg>>

\* cli_helpers.rs 115-123: the accumulators after the pair (prev, current),
\* as <<discharge, charge>>
AccumulatePair(prev, current, dis, chg) ==
    LET dt_hours == RatDiv(RatSub(F(current.ts), F(prev.ts)), F(3600))
    IN  IF GapCounted(dt_hours)
        THEN LET delta == RatSub(Unwrap(current.energy_now_wh), Unwrap(prev.energy_now_wh))
             IN  IF RatLt(F(0), delta) /\ is_charging(prev) /\ is_charging(current)
                 THEN <<dis, record(chg, delta, dt_hours)>>
                 ELSE IF RatLt(delta, F(0)) /\ is_discharging(prev) /\ is_discharging(current)
                      THEN <<record(dis, RatSub(F(0), delta), dt_hours), chg>>
                      ELSE <<dis, chg>>
        ELSE <<dis, chg>>

\* mutant: previous moves on only when the gap of the pair was counted
AdvanceOverCounted(prev, current) ==
    IF GapCounted(RatDiv(RatSub(F(current.ts), F(prev.ts)), F(3600))) THEN current ELSE prev

\* cli_helpers.rs 124: previous = current, at the end of every loop body
AdvancePrevious(prev, current) == current

\* cli_helpers.rs 110-125: the loop from the sample after position `consumed`
RECURSIVE WalkFrom(_, _, _, _, _)
WalkFrom(input, consumed, prev, dis, chg) ==
    LET n == NextEnergy(input, consumed)
    IN  IF n = 0
        THEN [discharge_w |-> average(dis), charge_w |-> average(chg)]
        ELSE IF input[n].ts < prev.ts
             THEN WalkFrom(input, n, ResetPrevious(prev, input[n]), dis, chg)
             ELSE LET after == AccumulatePair(prev, input[n], dis, chg)
                  IN  WalkFrom(input, n, AdvancePrevious(prev, input[n]), after[1], after[2])

\* average_rates as a function of its input
average_rates(input) ==
    LET first == NextEnergy(input, 0)
    IN  IF first = 0
        THEN [discharge_w |-> None, charge_w |-> None]
        ELSE WalkFrom(input, first, input[first], RateAccumulatorDefault,
                      RateAccumulatorDefault)

(***************************************************************************)
(* Inputs of average_rates                                                 *)
(***************************************************************************)
MaxSamples == 3

SampleTimes == {0, 300, 601}

SampleEnergies == {F(58), F(59), F(60)}

SampleStatuses == {None, Some(Discharging), Some(Charging)}

\* samples with energy_now, and the one sample without (nothing else of it is read)
SampleDomain ==
    {Sample(t, Some(e), Some(F(60)), Some(F(70)), st) :
        t \in SampleTimes, e \in SampleEnergies, st \in SampleStatuses}
    \cup {Sample(300, None, Some(F(60)), Some(F(70)), None)}

\* aggregate_battery_metrics is not running
MergeIdle ==
    /\ metrics = <<>>
    /\ aggregated = <<>>
    /\ pc = "idle"

InitRates ==
    /\ \E n \in 0..MaxSamples : samples \in [1..n -> SampleDomain]
    /\ iter = 0
    /\ previous = None
    /\ discharge = RateAccumulatorDefault
    /\ charge = RateAccumulatorDefault
    /\ rates = None
    /\ rpc = "start"
    /\ MergeIdle
    /\ PlanIdle
    /\ RuntimeIdle
    /\ BuildIdle
    /\ StoreIdle

\* cli_helpers.rs 105-108: no sample carries energy_now
RatesEmpty ==
    /\ rpc = "start"
    /\ NextEnergy(samples, iter) = 0
    /\ rates' = Some([discharge_w |-> None, charge_w |-> None])
    /\ iter' = Len(samples)
    /\ rpc' = "done"
    /\ UNCHANGED <<samples, previous, discharge, charge>>
    /\ UNCHANGED <<mergeVars, planVars, runtimeVars, buildVars, storeVars>>

\* cli_helpers.rs 102-106: the first energy-bearing sample becomes previous
RatesFirst ==
    /\ rpc = "start"
    /\ NextEnergy(samples, iter) # 0
    /\ previous' = Some(samples[NextEnergy(samples, iter)])
    /\ iter' = NextEnergy(samples, iter)
    /\ rpc' = "walk"
    /\ UNCHANGED <<samples, discharge, charge, rates>>
    /\ UNCHANGED <<mergeVars, planVars, runtimeVars, buildVars, storeVars>>

\* cli_helpers.rs 110-114: current.ts < previous.ts
WalkOutOfOrder ==
    /\ rpc = "walk"
    /\ NextEnergy(samples, iter) # 0
    /\ LET current == samples[NextEnergy(samples, iter)]
       IN  /\ current.ts < Unwrap(previous).ts
           /\ previous' = Some(ResetPrevious(Unwrap(previous), current))
    /\ iter' = NextEnergy(samples, iter)
    /\ UNCHANGED <<samples, discharge, charge, rates, rpc>>
    /\ UNCHANGED <<mergeVars, planVars, runtimeVars, buildVars, storeVars>>

\* cli_helpers.rs 110, 115-125: an in-order pair
WalkPair ==
    /\ rpc = "walk"
    /\ NextEnergy(samples, iter) # 0
    /\ LET current == samples[NextEnergy(samples, iter)]
           after == AccumulatePair(Unwrap(previous), current, discharge, charge)
       IN  /\ ~(current.ts < Unwrap(previous).ts)
           /\ discharge' = after[1]
           /\ charge' = after[2]
           /\ previous' = Some(AdvancePrevious(Unwrap(previous), current))
    /\ iter' = NextEnergy(samples, iter)
    /\ UNCHANGED <<samples, rates, rpc>>
    /\ UNCHANGED <<mergeVars, planVars, runtimeVars, buildVars, storeVars>>

\* cli_helpers.rs 127-130: the iterator is exhausted
RatesReturn ==
    /\ rpc = "walk"
    /\ NextEnergy(samples, iter) = 0
    /\ rates' = Some([discharge_w |-> average(discharge), charge_w |-> average(charge)])
    /\ iter' = Len(samples)
    /\ rpc' = "done"
    /\ UNCHANGED <<samples, previous, discharge, charge>>
    /\ UNCHANGED <<mergeVars, planVars, runtimeVars, buildVars, storeVars>>

NextRates == RatesEmpty \/ RatesFirst \/ WalkOutOfOrder \/ WalkPair \/ RatesReturn

SpecRates == InitRates /\ [][NextRates]_vars

(***************************************************************************)
(* average_rates on a run of samples taken at set times: every sample      *)
(* carries energy_now and, but for one stale sample stamped 0 s, the i-th  *)
(* sample is stamped RunStamp(i) (gaps of 100 s and 300 s in turn)         *)
(***************************************************************************)
MaxRun == MaxSamples + 1

RunStamp(i) == 200 * (i - 1) - 100 * ((i - 1) % 2)

RunChoices ==
    [energy : SampleEnergies, status : SampleStatuses, stale : {FALSE}]
    \cup {[energy |-> F(60), status |-> Some(Discharging), stale |-> TRUE]}

RunSample(i, c) ==
    Sample(IF c.stale THEN 0 ELSE RunStamp(i), Some(c.energy), Some(F(60)), Some(F(70)),
           c.status)

InitRuns ==
    /\ \E n \in 0..MaxRun : \E c \in [1..n -> RunChoices] :
          samples = [i \in 1..n |-> RunSample(i, c[i])]
    /\ iter = 0
    /\ previous = None
    /\ discharge = RateAccumulatorDefault
    /\ charge = RateAccumulatorDefault
    /\ rates = None
    /\ rpc = "start"
    /\ MergeIdle
    /\ PlanIdle
    /\ RuntimeIdle
    /\ BuildIdle
    /\ StoreIdle

SpecRuns == InitRuns /\ [][NextRates]_vars

(***************************************************************************)
(* bucket_span_seconds and bucket_start (src/src/cli_helpers.rs)           *)
(***************************************************************************)
\* timeframe::Timeframe
Timeframe(label, seconds, hours_u, days_u, months_u) ==
    [label |-> label, seconds |-> seconds, hours |-> hours_u, days |-> days_u,
     months |-> months_u]

\* mutant: the thresholds are exclusive
bucket_span_exclusive(tf) ==
    IF tf.seconds = None THEN 7 * 24 * 3600
    ELSE LET window == Unwrap(tf.seconds)
         IN  IF RatLt(window, F(6 * 3600)) THEN 20 * 60
             ELSE IF RatLt(window, F(24 * 3600)) THEN 3600
             ELSE IF RatLt(window, F(3 * 24 * 3600)) THEN 2 * 3600
             ELSE IF RatLt(window, F(7 * 24 * 3600)) THEN 6 * 3600
             ELSE IF RatLt(window, F(30 * 24 * 3600)) THEN 24 * 3600
             ELSE IF RatLt(window, F(90 * 24 * 3600)) THEN 3 * 24 * 3600
             ELSE 7 * 24 * 3600

bucket_span_seconds(tf) ==
    IF tf.seconds = None THEN 7 * 24 * 3600
    ELSE LET window == Unwrap(tf.seconds)
         IN  IF RatLe(window, F(6 * 3600)) THEN 20 * 60
             ELSE IF RatLe(window, F(24 * 3600)) THEN 3600
             ELSE IF RatLe(window, F(3 * 24 * 3600)) THEN 2 * 3600
             ELSE IF RatLe(window, F(7 * 24 * 3600)) THEN 6 * 3600
             ELSE IF RatLe(window, F(30 * 24 * 3600)) THEN 24 * 3600
             ELSE IF RatLe(window, F(90 * 24 * 3600)) THEN 3 * 24 * 3600
             ELSE 7 * 24 * 3600

\* mutant: the offset is not taken back out of the aligned value
bucket_start_shifted(stamp, width, offset) ==
    LET bucket_epoch ==
            RatMul(F(Floor(RatDiv(RatAdd(stamp, F(offset)), F(width)))), F(width))
    IN  IF RatLt(bucket_epoch, F(0)) THEN 0 ELSE Floor(bucket_epoch)

\* mutant: the quotient is rounded to the nearest boundary instead of floored
bucket_start_nearest(stamp, width, offset) ==
    LET bucket_epoch ==
            RatSub(RatMul(F(Floor(RatDiv(RatAdd(stamp, F(offset + width \div 2)),
                                         F(width)))),
                          F(width)),
                   F(offset))
    IN  IF RatLt(bucket_epoch, F(0)) THEN 0 ELSE Floor(bucket_epoch)

\* mutant: the aligned value is returned without the clamp of line 68
bucket_start_unclamped(stamp, width, offset) ==
    Floor(RatSub(RatMul(F(Floor(RatDiv(RatAdd(stamp, F(offset)), F(width)))), F(width)),
                 F(offset)))

\* bucket_start: the epoch second of the DateTime it returns; offset is
\* -local_dt.offset().utc_minus_local() at the given timestamp
bucket_start(stamp, width, offset) ==
    LET bucket_epoch ==
            RatSub(RatMul(F(Floor(RatDiv(RatAdd(stamp, F(offset)), F(width)))), F(width)),
                   F(offset))
    IN  IF RatLt(bucket_epoch, F(0)) THEN 0 ELSE Floor(bucket_epoch)

(***************************************************************************)
(* Inputs of bucket_span_seconds and bucket_start                          *)
(***************************************************************************)
\* Timeframe.seconds: unbounded, and durations at and around every threshold
Windows ==
    {None} \cup
    {Some(F(w)) : w \in {3600, 21600, 21601, 86400, 86401, 259200, 259201, 604800,
                          604801, 2592000, 2592001, 7776000, 7776001}}
    \cup {Some(Rat(43201, 2))}

PlanTimeframes == {Timeframe(<<>>, w, 0, 0, 0) : w \in Windows}

\* sample timestamps: before the epoch, the first seconds and the first week of
\* the epoch, and 2023
BucketTimes ==
    {F(0 - 100), F(0), Rat(1, 2), F(100), F(1199), F(1200), Rat(7199, 2), F(604799), F(604800),
     F(1700000000), F(1700001199), F(1700003600)}

\* local UTC offsets: UTC, UTC+1, UTC-5, UTC+5:30
Offsets == {0, 3600, 0 - 18000, 19800}

\* the other functions are not running
OthersIdleForPlan ==
    /\ MergeIdle
    /\ RatesIdle
    /\ RuntimeIdle
    /\ BuildIdle
    /\ StoreIdle

InitBuckets ==
    /\ timeframe \in PlanTimeframes
    /\ bucket_ts \in BucketTimes
    /\ offset_seconds \in Offsets
    /\ bucket_seconds = 0
    /\ bucket = None
    /\ bpc = "span"
    /\ OthersIdleForPlan

\* cli.rs 276: let bucket_seconds = bucket_span_seconds(timeframe)
BucketSpan ==
    /\ bpc = "span"
    /\ bucket_seconds' = bucket_span_seconds(timeframe)
    /\ bpc' = "start"
    /\ UNCHANGED <<timeframe, bucket_ts, offset_seconds, bucket>>
    /\ UNCHANGED <<mergeVars, rateVars, runtimeVars, buildVars, storeVars>>

\* cli.rs 537: let bucket = bucket_start(sample.ts, bucket_seconds)
BucketStart ==
    /\ bpc = "start"
    /\ bucket' = Some(bucket_start(bucket_ts, bucket_seconds, offset_seconds))
    /\ bpc' = "done"
    /\ UNCHANGED <<timeframe, bucket_seconds, bucket_ts, offset_seconds>>
    /\ UNCHANGED <<mergeVars, rateVars, runtimeVars, buildVars, storeVars>>

NextBuckets == BucketSpan \/ BucketStart

SpecBuckets == InitBuckets /\ [][NextBuckets]_vars

(***************************************************************************)
(* estimate_runtime_hours (src/src/cli_helpers.rs)                         *)
(***************************************************************************)
\* mutant: a non-positive energy_full falls back to energy_full_design
estimate_runtime_positive_capacity(avg, sample) ==
    IF avg = None THEN None
    ELSE IF RatLe(Unwrap(avg), F(0)) THEN None
    ELSE LET capacity_wh ==
                 IF IsSome(sample.energy_full_wh) /\ RatLt(F(0), Unwrap(sample.energy_full_wh))
                 THEN sample.energy_full_wh
                 ELSE sample.energy_full_design_wh
         IN  IF capacity_wh = None THEN None
             ELSE IF RatLe(Unwrap(capacity_wh), F(0)) THEN None
             ELSE Some(RatDiv(Unwrap(capacity_wh), Unwrap(avg)))

\* mutant: energy_full_design is preferred to energy_full
estimate_runtime_prefers_design(avg, sample) ==
    IF avg = None THEN None
    ELSE IF RatLe(Unwrap(avg), F(0)) THEN None
    ELSE LET capacity_wh ==
                 IF IsSome(sample.energy_full_design_wh)
                 THEN sample.energy_full_design_wh
                 ELSE sample.energy_full_wh
         IN  IF capacity_wh = None THEN None
             ELSE IF RatLe(Unwrap(capacity_wh), F(0)) THEN None
             ELSE Some(RatDiv(Unwrap(capacity_wh), Unwrap(avg)))

estimate_runtime_hours(avg, sample) ==
    IF avg = None THEN None
    ELSE IF RatLe(Unwrap(avg), F(0)) THEN None
    ELSE LET capacity_wh ==
                 IF IsSome(sample.energy_full_wh)
                 THEN sample.energy_full_wh
                 ELSE sample.energy_full_design_wh
         IN  IF capacity_wh = None THEN None
             ELSE IF RatLe(Unwrap(capacity_wh), F(0)) THEN None
             ELSE Some(RatDiv(Unwrap(capacity_wh), Unwrap(avg)))

(***************************************************************************)
(* Inputs of estimate_runtime_hours                                        *)
(***************************************************************************)
\* watts: absent, negative, zero, 4.8 and 12
DischargeRates == {None, Some(F(0 - 12)), Some(F(0)), Some(Rat(24, 5)), Some(F(12))}

FullCapacities == {None, Some(F(0 - 60)), Some(F(0)), Some(F(60))}

DesignCapacities == {None, Some(F(0 - 70)), Some(F(0)), Some(F(70)), Some(F(80))}

LatestSamples ==
    {Sample(600, now, full, design, None) :
        now \in {None, Some(F(59))}, full \in FullCapacities, design \in DesignCapacities}

InitRuntime ==
    /\ avg_discharge_w \in DischargeRates
    /\ current_sample \in {Some(sample) : sample \in LatestSamples}
    /\ est_runtime_hours = None
    /\ epc = "call"
    /\ MergeIdle
    /\ RatesIdle
    /\ PlanIdle
    /\ BuildIdle
    /\ StoreIdle

\* cli.rs 280-282: estimate_runtime_hours(avg_discharge_w, sample)
EstimateRuntime ==
    /\ epc = "call"
    /\ est_runtime_hours' =
          Some(estimate_runtime_hours(avg_discharge_w, Unwrap(current_sample)))
    /\ epc' = "done"
    /\ UNCHANGED <<avg_discharge_w, current_sample>>
    /\ UNCHANGED <<mergeVars, rateVars, planVars, buildVars, storeVars>>

NextRuntime == EstimateRuntime

SpecRuntime == InitRuntime /\ [][NextRuntime]_vars

(***************************************************************************)
(* build_timeframe (src/src/timeframe.rs)                                  *)
(***************************************************************************)
\* the string literals of build_timeframe
last_prefix == <<108, 97, 115, 116, 95>>

all_label == <<97, 108, 108>>

months_unit == <<109, 111, 110, 116, 104, 115>>

month_unit == <<109, 111, 110, 116, 104>>

days_unit == <<100, 97, 121, 115>>

day_unit == <<100, 97, 121>>

hours_unit == <<104, 111, 117, 114, 115>>

hour_unit == <<104, 111, 117, 114>>

SECONDS_PER_HOUR == 3600

SECONDS_PER_DAY == 24 * SECONDS_PER_HOUR

APPROX_DAYS_PER_MONTH == 30

\* Result<T, TimeframeError>
Ok(v) == [ok |-> TRUE, value |-> v]

Err(e) == [ok |-> FALSE, error |-> e]

InvalidHours == <<"InvalidHours">>

NegativeValue(name) == <<"NegativeValue", name>>

validate_non_negative(value, name) ==
    IF value < 0 THEN Err(NegativeValue(name)) ELSE Ok(<<>>)

\* "{}" of a u64: its decimal digits
RECURSIVE FormatU64(_)
FormatU64(n) ==
    IF n < 10 THEN <<48 + n>>
    ELSE FormatU64(n \div 10) \o <<48 + (n % 10)>>

plural_suffix(value, singular, plural) == IF value = 1 THEN singular ELSE plural

\* format!("last_{}_{}", count, unit)
LastLabel(count, unit) == last_prefix \o FormatU64(count) \o <<95>> \o unit

\* mutant: all_time is looked at before the arguments are validated
build_timeframe_all_time_first(hours_arg, days_arg, months_arg, all_time_arg) ==
    IF all_time_arg
    THEN Ok(Timeframe(all_label, None, 0, 0, 0))
    ELSE IF ~validate_non_negative(hours_arg, "hours").ok
    THEN validate_non_negative(hours_arg, "hours")
    ELSE IF ~validate_non_negative(days_arg, "days").ok
    THEN validate_non_negative(days_arg, "days")
    ELSE IF ~validate_non_negative(months_arg, "months").ok
    THEN validate_non_negative(months_arg, "months")
    ELSE IF months_arg > 0
    THEN Ok(Timeframe(LastLabel(months_arg, plural_suffix(months_arg, month_unit, months_unit)),
                      Some(F(months_arg * APPROX_DAYS_PER_MONTH * SECONDS_PER_DAY)),
                      0, 0, months_arg))
    ELSE IF days_arg > 0
    THEN Ok(Timeframe(LastLabel(days_arg, plural_suffix(days_arg, day_unit, days_unit)),
                      Some(F(days_arg * SECONDS_PER_DAY)), 0, days_arg, 0))
    ELSE IF hours_arg = 0
    THEN Err(InvalidHours)
    ELSE Ok(Timeframe(LastLabel(hours_arg, plural_suffix(hours_arg, hour_unit, hours_unit)),
                      Some(F(hours_arg * SECONDS_PER_HOUR)), hours_arg, 0, 0))

\* mutant: days are looked at before months
build_timeframe_days_first(hours_arg, days_arg, months_arg, all_time_arg) ==
    IF ~validate_non_negative(hours_arg, "hours").ok
    THEN validate_non_negative(hours_arg, "hours")
    ELSE IF ~validate_non_negative(days_arg, "days").ok
    THEN validate_non_negative(days_arg, "days")
    ELSE IF ~validate_non_negative(months_arg, "months").ok
    THEN validate_non_negative(months_arg, "months")
    ELSE IF all_time_arg
    THEN Ok(Timeframe(all_label, None, 0, 0, 0))
    ELSE IF days_arg > 0
    THEN Ok(Timeframe(LastLabel(days_arg, plural_suffix(days_arg, day_unit, days_unit)),
                      Some(F(days_arg * SECONDS_PER_DAY)), 0, days_arg, 0))
    ELSE IF months_arg > 0
    THEN Ok(Timeframe(LastLabel(months_arg, plural_suffix(months_arg, month_unit, months_unit)),
                      Some(F(months_arg * APPROX_DAYS_PER_MONTH * SECONDS_PER_DAY)),
                      0, 0, months_arg))
    ELSE IF hours_arg = 0
    THEN Err(InvalidHours)
    ELSE Ok(Timeframe(LastLabel(hours_arg, plural_suffix(hours_arg, hour_unit, hours_unit)),
                      Some(F(hours_arg * SECONDS_PER_HOUR)), hours_arg, 0, 0))

\* build_timeframe; the arguments are i64 and the products u64, and the
\* arguments tried are far from the 7 * 10^12 months at which a product
\* would leave u64
build_timeframe(hours_arg, days_arg, months_arg, all_time_arg) ==
    IF ~validate_non_negative(hours_arg, "hours").ok
    THEN validate_non_negative(hours_arg, "hours")
    ELSE IF ~validate_non_negative(days_arg, "days").ok
    THEN validate_non_negative(days_arg, "days")
    ELSE IF ~validate_non_negative(months_arg, "months").ok
    THEN validate_non_negative(months_arg, "months")
    ELSE IF all_time_arg
    THEN Ok(Timeframe(all_label, None, 0, 0, 0))
    ELSE IF months_arg > 0
    THEN Ok(Timeframe(LastLabel(months_arg, plural_suffix(months_arg, month_unit, months_unit)),
                      Some(F(months_arg * APPROX_DAYS_PER_MONTH * SECONDS_PER_DAY)),
                      0, 0, months_arg))
    ELSE IF days_arg > 0
    THEN Ok(Timeframe(LastLabel(days_arg, plural_suffix(days_arg, day_unit, days_unit)),
                      Some(F(days_arg * SECONDS_PER_DAY)), 0, days_arg, 0))
    ELSE IF hours_arg = 0
    THEN Err(InvalidHours)
    ELSE Ok(Timeframe(LastLabel(hours_arg, plural_suffix(hours_arg, hour_unit, hours_unit)),
                      Some(F(hours_arg * SECONDS_PER_HOUR)), hours_arg, 0, 0))

(***************************************************************************)
(* Inputs of build_timeframe                                               *)
(***************************************************************************)
HourArgs == {0 - 1, 0, 1, 2, 6, 12, 24}

DayArgs == {0 - 1, 0, 1, 2, 10}

MonthArgs == {0 - 1, 0, 1, 2, 12}

InitTimeframe ==
    /\ hours \in HourArgs
    /\ days \in DayArgs
    /\ months \in MonthArgs
    /\ all_time \in BOOLEAN
    /\ built = None
    /\ tpc = "call"
    /\ MergeIdle
    /\ RatesIdle
    /\ PlanIdle
    /\ RuntimeIdle
    /\ StoreIdle

\* cli.rs 193: build_timeframe(hours as i64, days as i64, months as i64, all_time)
BuildTimeframe ==
    /\ tpc = "call"
    /\ built' = Some(build_timeframe(hours, days, months, all_time))
    /\ tpc' = "done"
    /\ UNCHANGED <<hours, days, months, all_time>>
    /\ UNCHANGED <<mergeVars, rateVars, planVars, runtimeVars, storeVars>>

NextTimeframe == BuildTimeframe

SpecTimeframe == InitTimeframe /\ [][NextTimeframe]_vars

(***************************************************************************)
(* The sample store (src/src/db.rs) and the collector                      *)
(* (src/src/collector.rs).  A table is the sequence of its rows in rowid   *)
(* order; a row of samples is a Sample with its source_path, a row of      *)
(* metric_samples is a MetricSample.                                       *)
(***************************************************************************)
CpuUsage == "CpuUsage"

cpu == <<99, 112, 117>>

percent_unit == <<37>>

\* sysfs.rs 9-18: what read_battery returns for one battery directory
BatteryReading(path, energy_now_wh, status) ==
    [path |-> path, energy_now_wh |-> energy_now_wh, status |-> status]

\* mutant: every sample is stamped with the clock at the time it is created
create_sample_stamps_itself(reading, ts, clock) ==
    [ts |-> clock, energy_now_wh |-> reading.energy_now_wh,
     status |-> reading.status, source_path |-> reading.path]

\* db.rs 471-489; clock is what SystemTime::now() reads when ts is None
create_sample_from_reading(reading, ts, clock) ==
    LET now == IF IsSome(ts) THEN Unwrap(ts) ELSE clock
    IN  [ts |-> now, energy_now_wh |-> reading.energy_now_wh,
         status |-> reading.status, source_path |-> reading.path]

\* metrics.rs 504-519: every sampler stamps what it could read with the ts given
collect_metrics(ts, readable) ==
    [i \in 1..Len(readable) |->
        MetricSample(ts, readable[i].kind, readable[i].source, readable[i].value,
                     readable[i].unit, None)]

\* db.rs 149-205: both batches are appended in one transaction
insert_all_samples(db, battery_samples, metric_batch) ==
    [samples |-> db.samples \o battery_samples,
     metric_samples |-> db.metric_samples \o metric_batch]

\* DELETE FROM <table> WHERE ts < ?
DeleteOlder(table, cutoff_ts) == SelectSeq(table, LAMBDA row : ~(row.ts < cutoff_ts))

\* mutant: only the battery table is pruned
delete_old_samples_battery_only(db, cutoff_ts) ==
    [samples |-> DeleteOlder(db.samples, cutoff_ts), metric_samples |-> db.metric_samples]

\* db.rs 248-257
delete_old_samples(db, cutoff_ts) ==
    [samples |-> DeleteOlder(db.samples, cutoff_ts),
     metric_samples |-> DeleteOlder(db.metric_samples, cutoff_ts)]

\* db.rs 259-267: SELECT COUNT(*) FROM samples WHERE ts < ?
count_old_samples(table, cutoff_ts) ==
    Len(SelectSeq(table, LAMBDA row : row.ts < cutoff_ts))

\* db.rs 269-277: SELECT COUNT(*) FROM metric_samples WHERE ts < ?
count_old_metric_samples(table, cutoff_ts) ==
    Len(SelectSeq(table, LAMBDA row : row.ts < cutoff_ts))

\* ORDER BY ts: rows in ascending ts; SQL leaves the order of rows with equal
\* ts open, rowid_ties says whether they come out in rowid order or reversed
RECURSIVE PlaceByTs(_, _, _)
PlaceByTs(sorted, row, rowid_ties) ==
    IF sorted = <<>> THEN <<row>>
    ELSE IF Head(sorted).ts < row.ts \/ (rowid_ties /\ Head(sorted).ts = row.ts)
         THEN <<Head(sorted)>> \o PlaceByTs(Tail(sorted), row, rowid_ties)
         ELSE <<row>> \o sorted

RECURSIVE OrderByTs(_, _)
OrderByTs(rows, rowid_ties) ==
    IF rows = <<>> THEN <<>>
    ELSE PlaceByTs(OrderByTs(SubSeq(rows, 1, Len(rows) - 1), rowid_ties),
                   rows[Len(rows)], rowid_ties)

\* WHERE ts >= ?
WhereSince(table, since_ts) ==
    IF IsSome(since_ts)
    THEN SelectSeq(table, LAMBDA row : row.ts >= Unwrap(since_ts))
    ELSE table

\* mutant: the query has no ORDER BY, rows come out in rowid order
fetch_samples_rowid_order(table, since_ts) == {WhereSince(table, since_ts)}

\* db.rs 320-336: the Vecs the query can return
fetch_samples(table, since_ts) ==
    {OrderByTs(WhereSince(table, since_ts), ties) : ties \in BOOLEAN}

(***************************************************************************)
(* Inputs of the store: timestamps that repeat and arrive in any order,    *)
(* two batteries, one system metric                                        *)
(***************************************************************************)
MaxRows == 3

MaxMetricRows == MaxRows - 2

StoreTimes == {1, 2, 3}

Readings ==
    {BatteryReading(BAT0, Some(F(59)), Some(Discharging)),
     BatteryReading(BAT1, Some(F(60)), None)}

\* the batteries find_battery_paths reports: none, one, two
FoundBatteries ==
    {<<>>,
     <<BatteryReading(BAT0, Some(F(59)), Some(Discharging))>>,
     <<BatteryReading(BAT0, Some(F(59)), Some(Discharging)),
       BatteryReading(BAT1, Some(F(60)), None)>>}

\* what the metric samplers can read: nothing, or the cpu usage
Readable ==
    {<<>>,
     <<[kind |-> CpuUsage, source |-> cpu, value |-> Some(F(42)),
        unit |-> Some(percent_unit)]>>}

StoredSamples ==
    {create_sample_from_reading(reading, Some(ts), ts) : reading \in Readings, ts \in StoreTimes}

StoredMetrics ==
    {MetricSample(ts, CpuUsage, cpu, Some(F(42)), Some(percent_unit), None) : ts \in StoreTimes}

\* cutoffs of delete_old_samples and the count_old queries: some rows, every row
Cutoffs == {2, 4}

\* since_ts of fetch_samples
Sinces == {None, Some(2)}

\* the database file
Db == [samples |-> samples_table, metric_samples |-> metric_samples]

InitStore ==
    /\ samples_table = <<>>
    /\ metric_samples = <<>>
    /\ db_call = <<"init_db">>
    /\ db_result = None
    /\ MergeIdle
    /\ RatesIdle
    /\ PlanIdle
    /\ RuntimeIdle
    /\ BuildIdle

\* db.rs 96-98: insert_sample(db_path, sample), a batch of one
InsertSample ==
    /\ Len(samples_table) < MaxRows
    /\ \E sample \in StoredSamples :
          samples_table' = insert_all_samples(Db, <<sample>>, <<>>).samples
    /\ db_call' = <<"insert_sample">>
    /\ db_result' = None
    /\ UNCHANGED metric_samples
    /\ UNCHANGED <<mergeVars, rateVars, planVars, runtimeVars, buildVars>>

\* db.rs 144-147: insert_metric_samples(db_path, samples) with one sample
InsertMetricSample ==
    /\ Len(metric_samples) < MaxMetricRows
    /\ \E sample \in StoredMetrics :
          metric_samples' = insert_all_samples(Db, <<>>, <<sample>>).metric_samples
    /\ db_call' = <<"insert_metric_samples">>
    /\ db_result' = None
    /\ UNCHANGED samples_table
    /\ UNCHANGED <<mergeVars, rateVars, planVars, runtimeVars, buildVars>>

\* collector.rs 35-76: one sampling tick.  now is the clock read at lines 45-48,
\* later is what the clock reads while the batteries are being read.
CollectOnce ==
    /\ \E now \in StoreTimes, later \in StoreTimes, found \in FoundBatteries,
          readable \in Readable :
          LET battery_samples ==
                  [i \in 1..Len(found) |->
                      create_sample_from_reading(found[i], Some(now), later)]
              metric_batch == collect_metrics(now, readable)
              stored == insert_all_samples(Db, battery_samples, metric_batch)
          IN  /\ Len(stored.samples) <= MaxRows
              /\ Len(stored.metric_samples) <= MaxMetricRows
              /\ samples_table' = stored.samples
              /\ metric_samples' = stored.metric_samples
              /\ db_call' = <<"collect_once", now>>
    /\ db_result' = None
    /\ UNCHANGED <<mergeVars, rateVars, planVars, runtimeVars, buildVars>>

\* db.rs 248-257
DeleteOldSamples ==
    /\ \E cutoff_ts \in Cutoffs :
          /\ samples_table' = delete_old_samples(Db, cutoff_ts).samples
          /\ metric_samples' = delete_old_samples(Db, cutoff_ts).metric_samples
          /\ db_call' = <<"delete_old_samples", cutoff_ts>>
    /\ db_result' = None
    /\ UNCHANGED <<mergeVars, rateVars, planVars, runtimeVars, buildVars>>

\* db.rs 259-267
CountOldSamples ==
    /\ \E cutoff_ts \in Cutoffs :
          /\ db_result' = Some(count_old_samples(samples_table, cutoff_ts))
          /\ db_call' = <<"count_old_samples", cutoff_ts>>
    /\ UNCHANGED <<samples_table, metric_samples>>
    /\ UNCHANGED <<mergeVars, rateVars, planVars, runtimeVars, buildVars>>

\* db.rs 269-277
CountOldMetricSamples ==
    /\ \E cutoff_ts \in Cutoffs :
          /\ db_result' = Some(count_old_metric_samples(metric_samples, cutoff_ts))
          /\ db_call' = <<"count_old_metric_samples", cutoff_ts>>
    /\ UNCHANGED <<samples_table, metric_samples>>
    /\ UNCHANGED <<mergeVars, rateVars, planVars, runtimeVars, buildVars>>

\* db.rs 320-336
FetchSamples ==
    /\ \E since_ts \in Sinces : \E fetched \in fetch_samples(samples_table, since_ts) :
          /\ db_result' = Some(fetched)
          /\ db_call' = <<"fetch_samples", since_ts>>
    /\ UNCHANGED <<samples_table, metric_samples>>
    /\ UNCHANGED <<mergeVars, rateVars, planVars, runtimeVars, buildVars>>

NextStore ==
    \/ InsertSample
    \/ InsertMetricSample
    \/ CollectOnce
    \/ DeleteOldSamples
    \/ CountOldSamples
    \/ CountOldMetricSamples
    \/ FetchSamples

SpecStore == InitStore /\ [][NextStore]_vars

(***************************************************************************)
(* The whole model                                                         *)
(***************************************************************************)
Init ==
    InitMerge \/ InitOrder \/ InitRates \/ InitRuns \/ InitBuckets \/ InitRuntime \/ InitTimeframe
        \/ InitStore

Next == NextMerge \/ NextRates \/ NextBuckets \/ NextRuntime \/ NextTimeframe \/ NextStore

Spec == Init /\ [][Next]_vars

(***************************************************************************)
(* Claims about average_rates                                              *)
(***************************************************************************)
\* the walk is about to examine the pair (previous, Current)
Examining == rpc = "walk" /\ NextEnergy(samples, iter) # 0

Current == samples[NextEnergy(samples, iter)]

GapSeconds == Current.ts - Unwrap(previous).ts

\* the watt-hours by which energy_now falls from previous to Current
EnergyDrop == Unwrap(previous).energy_now_wh[1][1] - Current.energy_now_wh[1][1]

\* C9: an examined pair changes an accumulator only if 0 < curr.ts - prev.ts
\* <= 300 s: a pair of equal timestamps or of a larger gap leaves both as they
\* are, and a falling pair of status-less samples exactly 300 s apart is counted
\* (its drop and its 300 / 3600 h are added to the discharge accumulator).
C9_GapWindow ==
    [][Examining =>
          /\ ~(0 < GapSeconds /\ GapSeconds <= 300) =>
                (discharge' = discharge /\ charge' = charge)
          /\ (/\ GapSeconds = 300
              /\ EnergyDrop > 0
              /\ Current.status = None
              /\ Unwrap(previous).status = None) =>
                /\ discharge'.delta = RatAdd(discharge.delta, F(EnergyDrop))
                /\ discharge'.hours = RatAdd(discharge.hours, Rat(300, 3600))
                /\ charge' = charge]_vars

\* 60 Wh at 0 s, 59 Wh at 300 s, 58 Wh at 601 s: only the first pair counts,
\* 1 Wh in 1/12 h, that is 12 W
C9_Witness ==
    /\ rpc = "done"
    /\ Len(samples) = 3
    /\ \A i \in 1..3 : samples[i].status = None
    /\ samples[1].ts = 0 /\ samples[2].ts = 300 /\ samples[3].ts = 601
    /\ samples[1].energy_now_wh = Some(F(60))
    /\ samples[2].energy_now_wh = Some(F(59))
    /\ samples[3].energy_now_wh = Some(F(58))
    /\ discharge = [delta |-> F(1), hours |-> Rat(1, 12)]
    /\ rates = Some([discharge_w |-> Some(F(12)), charge_w |-> None])

\* a falling pair of equal timestamps has been examined and nothing was counted
C9_EqualTimestampsReached ==
    /\ rpc = "done"
    /\ Len(samples) = 2
    /\ \A i \in 1..2 : samples[i].status = None
    /\ samples[1].ts = 300 /\ samples[2].ts = 300
    /\ samples[1].energy_now_wh = Some(F(60))
    /\ samples[2].energy_now_wh = Some(F(59))
    /\ rates = Some([discharge_w |-> None, charge_w |-> None])

\* the result for three status-less energy-bearing samples of which the second
\* is older than the first and the third follows the second within 300 s
AfterReset ==
    (/\ rpc = "done"
     /\ Len(samples) = 3
     /\ \A i \in 1..3 : samples[i].status = None /\ samples[i].energy_now_wh # None
     /\ samples[2].ts < samples[1].ts
     /\ samples[3].ts - samples[2].ts > 0
     /\ samples[3].ts - samples[2].ts <= 300
     /\ samples[3].energy_now_wh[1][1] < samples[2].energy_now_wh[1][1]) =>
        /\ rates # None
        /\ rates[1].charge_w = None
        /\ rates[1].discharge_w =
              Some(Rat((samples[2].energy_now_wh[1][1] - samples[3].energy_now_wh[1][1]) * 3600,
                       samples[3].ts - samples[2].ts))

\* C10: when curr.ts < prev.ts the pair adds nothing to either accumulator, prev
\* becomes curr and the walk goes on; an in-order pair that follows the reset is
\* accumulated as usual.
C10_OutOfOrderReset ==
    /\ [][(Examining /\ Current.ts < Unwrap(previous).ts) =>
             /\ previous' = Some(Current)
             /\ discharge' = discharge /\ charge' = charge
             /\ rpc' = "walk"]_vars
    /\ []AfterReset

\* 60 Wh at 300 s, then 60 Wh at 0 s (out of order), then 59 Wh at 300 s: the
\* last pair counts, 12 W
C10_Witness ==
    /\ rpc = "done"
    /\ Len(samples) = 3
    /\ \A i \in 1..3 : samples[i].status = None
    /\ samples[1].ts = 300 /\ samples[2].ts = 0 /\ samples[3].ts = 300
    /\ samples[1].energy_now_wh = Some(F(60))
    /\ samples[2].energy_now_wh = Some(F(60))
    /\ samples[3].energy_now_wh = Some(F(59))
    /\ previous = Some(samples[3])
    /\ rates = Some([discharge_w |-> Some(F(12)), charge_w |-> None])

(***************************************************************************)
(* Claims about the classification of a pair                               *)
(***************************************************************************)
\* a status string in lower case
LowerStr(s) == [i \in 1..Len(s) |-> ToAsciiLower(s[i])]

\* status absent, or "discharging" whatever its case
ClassedDischarging(sample) ==
    sample.status = None \/ LowerStr(sample.status[1]) = discharging

\* status present and "charging" whatever its case
ClassedCharging(sample) ==
    sample.status # None /\ LowerStr(sample.status[1]) = charging

\* the watt-hours by which energy_now rises from previous to Current
EnergyRise == Current.energy_now_wh[1][1] - Unwrap(previous).energy_now_wh[1][1]

InGapWindow == 0 < GapSeconds /\ GapSeconds <= 300

\* C11: an examined pair adds to the discharge accumulator only if energy_now
\* falls and both samples are classified discharging (status "discharging" in
\* any case, or no status); such a pair inside the gap window adds the fall in
\* watt-hours and the gap in hours.
C11_DischargeContribution ==
    [][Examining =>
          /\ discharge' # discharge =>
                /\ EnergyRise < 0
                /\ ClassedDischarging(Unwrap(previous))
                /\ ClassedDischarging(Current)
          /\ (/\ InGapWindow
              /\ EnergyRise < 0
              /\ ClassedDischarging(Unwrap(previous))
              /\ ClassedDischarging(Current)) =>
                /\ discharge'.delta = RatAdd(discharge.delta, F(0 - EnergyRise))
                /\ discharge'.hours = RatAdd(discharge.hours, Rat(GapSeconds, 3600))]_vars

\* 60 Wh "Discharging" at 0 s, 59 Wh without status at 300 s: 1 Wh in 1/12 h
C11_Witness ==
    /\ rpc = "done"
    /\ Len(samples) = 2
    /\ samples[1] = Sample(0, Some(F(60)), Some(F(60)), Some(F(70)), Some(Discharging))
    /\ samples[2] = Sample(300, Some(F(59)), Some(F(60)), Some(F(70)), None)
    /\ discharge = [delta |-> F(1), hours |-> Rat(1, 12)]
    /\ charge = RateAccumulatorDefault
    /\ rates = Some([discharge_w |-> Some(F(12)), charge_w |-> None])

\* C12: an examined pair adds to the charge accumulator only if energy_now
\* rises and both samples carry a status that is "charging" in any case; such
\* a pair inside the gap window adds the rise and the gap; a rising pair with
\* a status-less sample on either side changes neither accumulator.
C12_ChargeContribution ==
    [][Examining =>
          /\ charge' # charge =>
                /\ EnergyRise > 0
                /\ ClassedCharging(Unwrap(previous))
                /\ ClassedCharging(Current)
          /\ (/\ InGapWindow
              /\ EnergyRise > 0
              /\ ClassedCharging(Unwrap(previous))
              /\ ClassedCharging(Current)) =>
                /\ charge'.delta = RatAdd(charge.delta, F(EnergyRise))
                /\ charge'.hours = RatAdd(charge.hours, Rat(GapSeconds, 3600))
          /\ (/\ EnergyRise > 0
              /\ (Unwrap(previous).status = None \/ Current.status = None)) =>
                (discharge' = discharge /\ charge' = charge)]_vars

\* 58 Wh "Charging" at 0 s, 59 Wh "Charging" at 300 s: 1 Wh in 1/12 h
C12_Witness ==
    /\ rpc = "done"
    /\ Len(samples) = 2
    /\ samples[1] = Sample(0, Some(F(58)), Some(F(60)), Some(F(70)), Some(Charging))
    /\ samples[2] = Sample(300, Some(F(59)), Some(F(60)), Some(F(70)), Some(Charging))
    /\ charge = [delta |-> F(1), hours |-> Rat(1, 12)]
    /\ discharge = RateAccumulatorDefault
    /\ rates = Some([discharge_w |-> None, charge_w |-> Some(F(12))])

\* a rising pair 300 s apart whose second sample has no status: nothing counted
C12_AbsentRiseReached ==
    /\ rpc = "done"
    /\ Len(samples) = 2
    /\ samples[1] = Sample(0, Some(F(58)), Some(F(60)), Some(F(70)), Some(Charging))
    /\ samples[2] = Sample(300, Some(F(59)), Some(F(60)), Some(F(70)), None)
    /\ rates = Some([discharge_w |-> None, charge_w |-> None])

(***************************************************************************)
(* Claims about the accumulated pairs and the returned rates               *)
(***************************************************************************)
\* the samples that carry energy_now, in input order
Bearing == SelectSeq(samples, LAMBDA s : s.energy_now_wh # None)

PairGap(i) == Bearing[i + 1].ts - Bearing[i].ts

PairRise(i) == Bearing[i + 1].energy_now_wh[1][1] - Bearing[i].energy_now_wh[1][1]

\* the adjacent pairs inside the gap window that rise between two charging samples
ChargingPairs ==
    {i \in 1..(Len(Bearing) - 1) :
        /\ 0 < PairGap(i) /\ PairGap(i) <= 300
        /\ PairRise(i) > 0
        /\ ClassedCharging(Bearing[i]) /\ ClassedCharging(Bearing[i + 1])}

\* the adjacent pairs inside the gap window that fall between two discharging samples
DischargingPairs ==
    {i \in 1..(Len(Bearing) - 1) :
        /\ 0 < PairGap(i) /\ PairGap(i) <= 300
        /\ PairRise(i) < 0
        /\ ClassedDischarging(Bearing[i]) /\ ClassedDischarging(Bearing[i + 1])}

RECURSIVE TotalRise(_)
TotalRise(I) ==
    IF I = {} THEN 0
    ELSE LET i == CHOOSE j \in I : TRUE IN PairRise(i) + TotalRise(I \ {i})

RECURSIVE TotalGap(_)
TotalGap(I) ==
    IF I = {} THEN 0
    ELSE LET i == CHOOSE j \in I : TRUE IN PairGap(i) + TotalGap(I \ {i})

ExplicitStatuses == \A i \in 1..Len(samples) : samples[i].status # None

\* the examined pair goes from a charging to a discharging sample or back
CrossesStatus ==
    /\ Unwrap(previous).status # None
    /\ Current.status # None
    /\ \/ ClassedCharging(Unwrap(previous)) /\ ClassedDischarging(Current)
       \/ ClassedDischarging(Unwrap(previous)) /\ ClassedCharging(Current)

IsolatedAccumulators ==
    (rpc = "done" /\ ExplicitStatuses) =>
        /\ charge = [delta |-> F(TotalRise(ChargingPairs)),
                     hours |-> Rat(TotalGap(ChargingPairs), 3600)]
        /\ discharge = [delta |-> F(0 - TotalRise(DischargingPairs)),
                        hours |-> Rat(TotalGap(DischargingPairs), 3600)]

\* C13: a pair that goes from a charging sample to a discharging one, or back,
\* changes neither accumulator; with explicit statuses the charge accumulator
\* ends as the total of the charging-to-charging pairs alone and the discharge
\* accumulator as the total of the discharging-to-discharging pairs alone.
C13_CrossStatusExcluded ==
    /\ [][(Examining /\ CrossesStatus) =>
             (discharge' = discharge /\ charge' = charge)]_vars
    /\ []IsolatedAccumulators

\* charging 58 Wh -> 60 Wh in 100 s (72 W), then a fall of 1 Wh across the
\* change of status (left out), then discharging 59 Wh -> 58 Wh in 100 s (36 W)
C13_Witness ==
    /\ rpc = "done"
    /\ Len(samples) = 4
    /\ samples[1] = Sample(0, Some(F(58)), Some(F(60)), Some(F(70)), Some(Charging))
    /\ samples[2] = Sample(100, Some(F(60)), Some(F(60)), Some(F(70)), Some(Charging))
    /\ samples[3] = Sample(400, Some(F(59)), Some(F(60)), Some(F(70)), Some(Discharging))
    /\ samples[4] = Sample(500, Some(F(58)), Some(F(60)), Some(F(70)), Some(Discharging))
    /\ rates = Some([discharge_w |-> Some(F(36)), charge_w |-> Some(F(72))])

\* total watt-hours over total hours of the pairs I, absent when I is empty
TotalRate(I, wh) == IF I = {} THEN None ELSE Some(Rat(wh * 3600, TotalGap(I)))

\* C14: each returned rate is the total energy change of its qualifying pairs
\* divided by their total hours, and is absent exactly when no pair qualifies
\* (so for an empty input and for a single sample).
C14_TimeWeightedRates ==
    rpc = "done" =>
        rates = Some([discharge_w |-> TotalRate(DischargingPairs,
                                                0 - TotalRise(DischargingPairs)),
                      charge_w |-> TotalRate(ChargingPairs, TotalRise(ChargingPairs))])

\* 60 Wh -> 59 Wh in 100 s (36 W), 59 Wh -> 58 Wh in 300 s (12 W): 2 Wh in
\* 400 s is 18 W, where the mean of the two rates would be 24 W
C14_Witness ==
    /\ rpc = "done"
    /\ Len(samples) = 3
    /\ \A i \in 1..3 : samples[i].status = None
    /\ samples[1].ts = 0 /\ samples[2].ts = 100 /\ samples[3].ts = 400
    /\ samples[1].energy_now_wh = Some(F(60))
    /\ samples[2].energy_now_wh = Some(F(59))
    /\ samples[3].energy_now_wh = Some(F(58))
    /\ rates = Some([discharge_w |-> Some(F(18)), charge_w |-> None])

C14_EmptyReached ==
    rpc = "done" /\ samples = <<>> /\ rates = Some([discharge_w |-> None, charge_w |-> None])

C14_SingleReached ==
    /\ rpc = "done"
    /\ Len(samples) = 1
    /\ rates = Some([discharge_w |-> None, charge_w |-> None])

(***************************************************************************)
(* Claims about samples without energy_now                                 *)
(***************************************************************************)
\* C15: average_rates returns for any input what it returns for the samples
\* of the input that carry energy_now, in the same order, and a sample without
\* energy_now is never held as previous.
C15_EnergyLessSkipped ==
    /\ previous # None => Unwrap(previous).energy_now_wh # None
    /\ rpc = "done" =>
          /\ rates = Some(average_rates(Bearing))
          /\ average_rates(samples) = average_rates(Bearing)

\* 60 Wh at 0 s, a sample without energy_now at 300 s, 59 Wh at 300 s: the
\* pair across it is 1 Wh in 300 s, 12 W
C15_Witness ==
    /\ rpc = "done"
    /\ Len(samples) = 3
    /\ samples[1] = Sample(0, Some(F(60)), Some(F(60)), Some(F(70)), None)
    /\ samples[2] = Sample(300, None, Some(F(60)), Some(F(70)), None)
    /\ samples[3] = Sample(300, Some(F(59)), Some(F(60)), Some(F(70)), None)
    /\ Len(Bearing) = 2
    /\ previous = Some(samples[3])
    /\ rates = Some([discharge_w |-> Some(F(12)), charge_w |-> None])

(***************************************************************************)
(* Claims about bucket_span_seconds and bucket_start                       *)
(***************************************************************************)
\* the timeframe is bounded and lasts at most `limit` seconds
LastsAtMost(limit) ==
    /\ timeframe.seconds # None
    /\ timeframe.seconds[1][1] <= limit * timeframe.seconds[1][2]

\* C16: the width is 1200 s up to 6 h, 3600 s up to 24 h, 7200 s up to 3 d,
\* 21600 s up to 7 d, 86400 s up to 30 d, 259200 s up to 90 d, each limit
\* included, and 604800 s for a longer or an unbounded timeframe.
C16_BucketWidth ==
    bpc \in {"start", "done"} =>
        bucket_seconds =
            IF LastsAtMost(21600) THEN 1200
            ELSE IF LastsAtMost(86400) THEN 3600
            ELSE IF LastsAtMost(259200) THEN 7200
            ELSE IF LastsAtMost(604800) THEN 21600
            ELSE IF LastsAtMost(2592000) THEN 86400
            ELSE IF LastsAtMost(7776000) THEN 259200
            ELSE 604800

\* a timeframe of exactly 6 h is given 20-minute buckets
C16_Witness ==
    /\ bpc = "start"
    /\ timeframe.seconds = Some(F(21600))
    /\ bucket_seconds = 1200

C16_UnboundedReached == bpc = "start" /\ timeframe.seconds = None /\ bucket_seconds = 604800

C16_HalfSecondOverReached ==
    bpc = "start" /\ timeframe.seconds = Some(Rat(43201, 2)) /\ bucket_seconds = 3600

C16_LongerReached ==
    bpc = "start" /\ timeframe.seconds = Some(F(7776001)) /\ bucket_seconds = 604800

\* the returned start, in epoch seconds
BucketEpoch == Unwrap(bucket)

\* start <= ts and ts - start < width, for the rational bucket_ts
StartWithinWidth ==
    /\ BucketEpoch * bucket_ts[2] <= bucket_ts[1]
    /\ bucket_ts[1] - BucketEpoch * bucket_ts[2] < bucket_seconds * bucket_ts[2]

\* start + local UTC offset is an exact multiple of the width
AlignedInLocalTime == (BucketEpoch + offset_seconds) % bucket_seconds = 0

\* the aligned value before it is clamped: floor((ts + offset) / width) * width - offset
UnclampedEpoch ==
    ((bucket_ts[1] + offset_seconds * bucket_ts[2]) \div (bucket_seconds * bucket_ts[2]))
        * bucket_seconds - offset_seconds

\* C17 as stated: for any timestamp and width the start is at most ts, less
\* than a width before it, and a multiple of the width in local time.
C17_AlwaysAligned ==
    bpc = "done" => (StartWithinWidth /\ AlignedInLocalTime)

\* C17, amended: for a timestamp ts >= 0 the start satisfies 0 <= start <= ts
\* and ts - start < w; start + offset is a multiple of w when the aligned value
\* floor((ts + offset) / w) * w - offset is not negative, and otherwise the
\* start is 0, the clamped value.
C17_AlignedUnlessClamped ==
    (bpc = "done" /\ bucket_ts[1] >= 0) =>
        /\ BucketEpoch >= 0
        /\ StartWithinWidth
        /\ IF UnclampedEpoch >= 0 THEN AlignedInLocalTime ELSE BucketEpoch = 0

\* 2023-11-14 22:13:20 UTC at UTC+5:30 with 20-minute buckets: 03:43:20 local
\* time falls into the bucket of 03:40:00, which is 22:10:00 UTC
C17_Witness ==
    /\ bpc = "done"
    /\ bucket_ts = F(1700000000)
    /\ offset_seconds = 19800
    /\ bucket_seconds = 1200
    /\ bucket = Some(1699999800)

\* 100 s after the epoch at UTC+1 with weekly buckets: the aligned value is
\* -3600 and the start is clamped to 0, which is 01:00:00 local time
C17_ClampedReached ==
    /\ bpc = "done"
    /\ bucket_ts = F(100)
    /\ offset_seconds = 3600
    /\ bucket_seconds = 604800
    /\ UnclampedEpoch = 0 - 3600
    /\ bucket = Some(0)

(***************************************************************************)
(* Claims about estimate_runtime_hours                                     *)
(***************************************************************************)
Latest == Unwrap(current_sample)

Runtime == Unwrap(est_runtime_hours)

\* energy_full if present, otherwise energy_full_design
ChosenCapacity ==
    IF Latest.energy_full_wh # None THEN Latest.energy_full_wh
    ELSE Latest.energy_full_design_wh

\* the number r is present and not positive
NotPositive(r) == r # None /\ r[1][1] <= 0

\* C18: the runtime is absent when the rate is absent or <= 0, when the latest
\* sample has neither energy_full nor energy_full_design, and when the chosen
\* capacity is <= 0; so it is absent for an energy_full <= 0 whatever
\* energy_full_design is.
C18_RuntimeAbsent ==
    epc = "done" =>
        /\ (\/ avg_discharge_w = None
            \/ NotPositive(avg_discharge_w)
            \/ (Latest.energy_full_wh = None /\ Latest.energy_full_design_wh = None)
            \/ NotPositive(ChosenCapacity)) => Runtime = None
        /\ NotPositive(Latest.energy_full_wh) => Runtime = None

\* 12 W, energy_full 0 Wh and energy_full_design 70 Wh: no runtime
C18_Witness ==
    /\ epc = "done"
    /\ avg_discharge_w = Some(F(12))
    /\ Latest.energy_full_wh = Some(F(0))
    /\ Latest.energy_full_design_wh = Some(F(70))
    /\ Runtime = None

C18_NoRateReached ==
    /\ epc = "done"
    /\ avg_discharge_w = None
    /\ Latest.energy_full_wh = Some(F(60))
    /\ Runtime = None

C18_NoCapacityReached ==
    /\ epc = "done"
    /\ avg_discharge_w = Some(F(12))
    /\ Latest.energy_full_wh = None
    /\ Latest.energy_full_design_wh = None
    /\ Runtime = None

\* C19: a runtime that is returned is capacity / rate, the capacity being
\* energy_full of the latest sample when that is present and energy_full_design
\* only when it is not.
C19_RuntimeValue ==
    (epc = "done" /\ Runtime # None) =>
        /\ avg_discharge_w # None
        /\ ChosenCapacity # None
        /\ Runtime = Some(Rat(ChosenCapacity[1][1] * avg_discharge_w[1][2],
                              ChosenCapacity[1][2] * avg_discharge_w[1][1]))

\* 4.8 W and energy_full 60 Wh (energy_full_design 70 Wh): 12.5 h
C19_Witness ==
    /\ epc = "done"
    /\ avg_discharge_w = Some(Rat(24, 5))
    /\ Latest.energy_full_wh = Some(F(60))
    /\ Latest.energy_full_design_wh = Some(F(70))
    /\ Runtime = Some(Rat(25, 2))

\* 4.8 W, no energy_full and energy_full_design 80 Wh: 16 h 40 min
C19_DesignReached ==
    /\ epc = "done"
    /\ avg_discharge_w = Some(Rat(24, 5))
    /\ Latest.energy_full_wh = None
    /\ Latest.energy_full_design_wh = Some(F(80))
    /\ Runtime = Some(Rat(50, 3))

(***************************************************************************)
(* Claims about build_timeframe                                            *)
(***************************************************************************)
Built == Unwrap(built)

\* build_timeframe returned this timeframe (the label aside)
BuiltIs(seconds, hours_u, days_u, months_u) ==
    /\ Built.ok
    /\ Built.value.seconds = seconds
    /\ Built.value.hours = hours_u
    /\ Built.value.days = days_u
    /\ Built.value.months = months_u

C20_AllTimeReached ==
    /\ tpc = "done"
    /\ hours = 6 /\ days = 2 /\ months = 12 /\ all_time
    /\ BuiltIs(None, 0, 0, 0)
    /\ Built.value.label = <<97, 108, 108>>

\* build_timeframe(2, 10, 0, false) is ten days, "last_10_days"
C20_DaysReached ==
    /\ tpc = "done"
    /\ hours = 2 /\ days = 10 /\ months = 0 /\ ~all_time
    /\ BuiltIs(Some(F(864000)), 0, 10, 0)
    /\ Built.value.label =
          <<108, 97, 115, 116, 95, 49, 48, 95, 100, 97, 121, 115>>

\* build_timeframe(6, 0, 0, false) is six hours, "last_6_hours"
C20_HoursReached ==
    /\ tpc = "done"
    /\ hours = 6 /\ days = 0 /\ months = 0 /\ ~all_time
    /\ BuiltIs(Some(F(21600)), 6, 0, 0)
    /\ Built.value.label =
          <<108, 97, 115, 116, 95, 54, 95, 104, 111, 117, 114, 115>>

\* build_timeframe returned the error of this name
BuiltError(name) == ~Built.ok /\ Built.error[1] = name

\* C21: a negative hours, days or months gives NegativeValue, with all_time set
\* too; hours, days and months all zero without all_time give InvalidHours; no
\* Timeframe is returned in either case.
C21_TimeframeErrors ==
    tpc = "done" =>
        /\ (hours < 0 \/ days < 0 \/ months < 0) => BuiltError("NegativeValue")
        /\ (hours = 0 /\ days = 0 /\ months = 0 /\ ~all_time) => BuiltError("InvalidHours")

\* build_timeframe(6, -1, 0, true): NegativeValue("days") although all_time is set
C21_Witness ==
    /\ tpc = "done"
    /\ hours = 6 /\ days = 0 - 1 /\ months = 0 /\ all_time
    /\ Built = Err(NegativeValue("days"))

\* build_timeframe(0, 0, 0, false): InvalidHours
C21_InvalidHoursReached ==
    /\ tpc = "done"
    /\ hours = 0 /\ days = 0 /\ months = 0 /\ ~all_time
    /\ Built = Err(InvalidHours)

\* build_timeframe(1, -1, 0, false), as in the crate test
C21_NegativeDaysReached ==
    /\ tpc = "done"
    /\ hours = 1 /\ days = 0 - 1 /\ months = 0 /\ ~all_time
    /\ Built = Err(NegativeValue("days"))

(***************************************************************************)
(* Claims about the walk as a whole                                        *)
(***************************************************************************)
\* both unwrap() calls of the pair about to be examined succeed
UnwrapsSucceed ==
    /\ previous # None => Unwrap(previous).energy_now_wh # None
    /\ Examining => Current.energy_now_wh # None

\* the samples consumed never exceed the input, and a call that is over has
\* returned its rates
RunsToReturn ==
    /\ iter <= Len(samples)
    /\ rpc = "done" => (rates # None /\ iter = Len(samples))

\* C22: average_rates never aborts: on unsorted input, repeated timestamps,
\* oversized gaps and samples without energy_now or status, energy_now is
\* present whenever it is unwrapped (the two unwrap() calls are all that can
\* panic), every step of the loop consumes at least one sample, and the call
\* ends with its rates returned.
C22_NeverAborts ==
    /\ [](UnwrapsSucceed /\ RunsToReturn)
    /\ [][iter' > iter \/ (rpc' = "done" /\ iter' = Len(samples))]_vars

\* 60 Wh at 601 s, a sample without energy_now, 59 Wh without status at 0 s
\* (out of order) and again at 0 s (repeated): returned, no rate
C22_Witness ==
    /\ rpc = "done"
    /\ Len(samples) = 3
    /\ samples[1] = Sample(300, None, Some(F(60)), Some(F(70)), None)
    /\ samples[2] = Sample(601, Some(F(60)), Some(F(60)), Some(F(70)), Some(Charging))
    /\ samples[3] = Sample(0, Some(F(59)), Some(F(60)), Some(F(70)), None)
    /\ iter = 3
    /\ rates = Some([discharge_w |-> None, charge_w |-> None])

\* an oversized gap followed by a repeated timestamp
C22_GapAndRepeatReached ==
    /\ rpc = "done"
    /\ Len(samples) = 3
    /\ samples[1].ts = 0 /\ samples[2].ts = 601 /\ samples[3].ts = 601
    /\ \A i \in 1..3 : samples[i].energy_now_wh = Some(F(61 - i))
    /\ \A i \in 1..3 : samples[i].status = None
    /\ rates = Some([discharge_w |-> None, charge_w |-> None])

(***************************************************************************)
(* Claims about the sample store                                           *)
(***************************************************************************)
\* the rows are in ascending ts order
Ascending(rows) == \A i \in 1..(Len(rows) - 1) : rows[i].ts <= rows[i + 1].ts

\* how many times the row occurs
Occurrences(rows, row) == Cardinality({i \in 1..Len(rows) : rows[i] = row})

Range(rows) == {rows[i] : i \in 1..Len(rows)}

\* the last operation was fetch_samples
Fetched == db_call[1] = "fetch_samples"

\* C23: whatever inserts and deletions made the samples table, and whatever
\* order its rows were inserted in, fetch_samples(since) returns each stored
\* row with ts >= since (each stored row when since is None) as often as it
\* is stored, returns nothing else, and returns the rows in ascending ts.
C23_FetchSinceAscending ==
    Fetched =>
        LET since_ts == db_call[2]
            fetched == Unwrap(db_result)
        IN  /\ Ascending(fetched)
            /\ \A row \in Range(samples_table) \cup Range(fetched) :
                  Occurrences(fetched, row) =
                      IF since_ts = None \/ row.ts >= Unwrap(since_ts)
                      THEN Occurrences(samples_table, row)
                      ELSE 0

\* rows inserted at ts 3, 1, 2: fetch_samples(Some(2)) returns ts 2, then ts 3
C23_Witness ==
    /\ Fetched
    /\ db_call[2] = Some(2)
    /\ Len(samples_table) = 3
    /\ samples_table[1].ts = 3 /\ samples_table[2].ts = 1 /\ samples_table[3].ts = 2
    /\ Len(Unwrap(db_result)) = 2
    /\ Unwrap(db_result)[1] = samples_table[3]
    /\ Unwrap(db_result)[2] = samples_table[1]

\* since absent, two rows at the same ts inserted after a later one
C23_AllReached ==
    /\ Fetched
    /\ db_call[2] = None
    /\ Len(samples_table) = 3
    /\ samples_table[1].ts = 2 /\ samples_table[2].ts = 1 /\ samples_table[3].ts = 1
    /\ samples_table[2] # samples_table[3]
    /\ Len(Unwrap(db_result)) = 3
    /\ Unwrap(db_result)[3] = samples_table[1]

\* no row of the table is older than the cutoff, and the rows at or after the
\* cutoff are the ones of the table before, each as often as before
PrunedTo(after, before, cutoff_ts) ==
    /\ \A row \in Range(after) : row.ts >= cutoff_ts
    /\ \A row \in Range(before) :
          row.ts >= cutoff_ts => Occurrences(after, row) = Occurrences(before, row)

\* C24: a delete_old_samples(cutoff) step removes every row with ts < cutoff
\* from both the samples table and the metric_samples table, keeps every row
\* with ts >= cutoff, and leaves count_old_samples(cutoff) and
\* count_old_metric_samples(cutoff) at 0.
C24_DeleteOldPrunesBoth ==
    [][db_call'[1] = "delete_old_samples" =>
          /\ PrunedTo(samples_table', samples_table, db_call'[2])
          /\ PrunedTo(metric_samples', metric_samples, db_call'[2])
          /\ count_old_samples(samples_table', db_call'[2]) = 0
          /\ count_old_metric_samples(metric_samples', db_call'[2]) = 0]_vars

\* after delete_old_samples(2): both batteries at ts 3 and 2 and the cpu usage
\* of ts 2 are what is stored
C24_Witness ==
    /\ db_call = <<"delete_old_samples", 2>>
    /\ Len(samples_table) = 2
    /\ samples_table[1].ts = 3 /\ samples_table[1].source_path = BAT1
    /\ samples_table[2].ts = 2 /\ samples_table[2].source_path = BAT0
    /\ Len(metric_samples) = 1
    /\ metric_samples[1].ts = 2

\* after delete_old_samples(4) nothing is stored
C24_EmptiedReached ==
    /\ db_call = <<"delete_old_samples", 4>>
    /\ samples_table = <<>>
    /\ metric_samples = <<>>

\* the timestamps of the rows a step appended to the table
AppendedStamps(after, before) == {after[i].ts : i \in (Len(before) + 1)..Len(after)}

\* C27: every battery sample and every system-metric sample a collect_once
\* call writes carries the one timestamp the call read from the clock, however
\* the clock moves while the batteries are read; the rows of one tick so share
\* one exact ts and form one merge group.
C27_OneTimestampPerTick ==
    [][db_call'[1] = "collect_once" =>
          /\ SubSeq(samples_table', 1, Len(samples_table)) = samples_table
          /\ SubSeq(metric_samples', 1, Len(metric_samples)) = metric_samples
          /\ AppendedStamps(samples_table', samples_table)
                 \cup AppendedStamps(metric_samples', metric_samples) \subseteq {db_call'[2]}]_vars

\* a tick at ts 2 after a sample of ts 3: both batteries and the cpu usage are
\* stored with ts 2
C27_Witness ==
    /\ db_call = <<"collect_once", 2>>
    /\ Len(samples_table) = 3
    /\ samples_table[1].ts = 3
    /\ samples_table[2].ts = 2 /\ samples_table[2].source_path = BAT0
    /\ samples_table[3].ts = 2 /\ samples_table[3].source_path = BAT1
    /\ Len(metric_samples) = 1
    /\ metric_samples[1].ts = 2 /\ metric_samples[1].kind = CpuUsage

(***************************************************************************)
(* Further claims about bucket_start                                       *)
(***************************************************************************)
\* C25: the start bucket_start returns is never negative, for every timestamp
\* (before the epoch too), width and local UTC offset.
C25_StartNeverNegative ==
    bpc = "done" => BucketEpoch >= 0

\* 100 s before the epoch at UTC-5 with 20-minute buckets: the aligned value
\* is -1200 and the start returned is 0
C25_Witness ==
    /\ bpc = "done"
    /\ bucket_ts = F(0 - 100)
    /\ offset_seconds = 0 - 18000
    /\ bucket_seconds = 1200
    /\ UnclampedEpoch = 0 - 1200
    /\ bucket = Some(0)

\* a <= b for timestamps, comparing whole seconds before fractions
StampLe(a, b) ==
    \/ Floor(a) < Floor(b)
    \/ Floor(a) = Floor(b) /\ (a[1] % a[2]) * b[2] <= (b[1] % b[2]) * a[2]

\* bucket_start at another timestamp, with the width and the offset of the call
StartOf(stamp) == bucket_start(stamp, bucket_seconds, offset_seconds)

\* timestamps of the bucket [start, start + width): its first and last second,
\* its middle, its last half second, and every sample timestamp that lies in it
BucketProbes ==
    {F(BucketEpoch), F(BucketEpoch + bucket_seconds - 1),
     F(BucketEpoch + bucket_seconds \div 2)}
    \cup (IF BucketEpoch < 1000000
          THEN {Rat(2 * (BucketEpoch + bucket_seconds) - 1, 2)}
          ELSE {})
    \cup {stamp \in BucketTimes :
             StampLe(F(BucketEpoch), stamp) /\ Floor(stamp) < BucketEpoch + bucket_seconds}

\* bucket_start(bucket_start(ts)) = bucket_start(ts)
Idempotent == StartOf(F(BucketEpoch)) = BucketEpoch

\* every timestamp of [start, start + width) maps to start
ConstantOnBucket == \A stamp \in BucketProbes : StartOf(stamp) = BucketEpoch

\* ts1 <= ts2 implies bucket_start(ts1) <= bucket_start(ts2)
Monotone ==
    \A stamp \in BucketTimes :
        /\ StampLe(bucket_ts, stamp) => BucketEpoch <= StartOf(stamp)
        /\ StampLe(stamp, bucket_ts) => StartOf(stamp) <= BucketEpoch

\* C30 as stated: for a fixed width and offset bucket_start is idempotent,
\* maps every timestamp of [start, start + width) to start, and is monotone.
C30_ConstantOnEveryBucket ==
    bpc = "done" => (Idempotent /\ ConstantOnBucket /\ Monotone)

\* C30, amended: for a fixed width and offset bucket_start is idempotent and
\* monotone, and it maps every timestamp of [start, start + width) to start
\* when start is the aligned value floor((ts + offset) / w) * w - offset, that
\* is when that value is not negative and so was not clamped to 0.
C30_ConstantOnUnclampedBuckets ==
    bpc = "done" =>
        /\ Idempotent
        /\ Monotone
        /\ UnclampedEpoch >= 0 => ConstantOnBucket

\* 2023-11-14 22:13:20 UTC at UTC+5:30 with hourly buckets: the bucket starts
\* at 21:30:00 UTC and its last second 22:29:59 UTC maps to the same start
C30_Witness ==
    /\ bpc = "done"
    /\ bucket_ts = F(1700000000)
    /\ offset_seconds = 19800
    /\ bucket_seconds = 3600
    /\ bucket = Some(1699997400)
    /\ StartOf(F(1699997400 + 3599)) = 1699997400
    /\ F(1700000000) \in BucketProbes

\* 100 s after the epoch at UTC+1 with weekly buckets: the start is clamped to
\* 0, and second 604799 of [0, 604800) starts the next local week at 601200
C30_ClampedReached ==
    /\ bpc = "done"
    /\ bucket_ts = F(100)
    /\ offset_seconds = 3600
    /\ bucket_seconds = 604800
    /\ bucket = Some(0)
    /\ StartOf(F(604799)) = 601200

(***************************************************************************)
(* Further claims about the rate walk                                      *)
(***************************************************************************)
\* C26: every examined pair, whether it was accumulated, rejected for its
\* gap, rejected for its classification or discarded as out of order, leaves
\* previous at its later sample; during the walk previous is so always the
\* last sample taken from the iterator, and the next pair is (curr, next).
C26_PreviousAlwaysAdvances ==
    /\ [](rpc = "walk" => (iter > 0 /\ previous = Some(samples[iter])))
    /\ [][Examining => (previous' = Some(Current) /\ iter' = NextEnergy(samples, iter))]_vars

\* 60 Wh at 0 s, then 59 Wh at 601 s: the pair is rejected for its gap and
\* previous is the sample of 601 s; the third sample, 58 Wh at 601 s, is next
C26_Witness ==
    /\ rpc = "walk"
    /\ Len(samples) = 3
    /\ samples[1].ts = 0 /\ samples[2].ts = 601 /\ samples[3].ts = 601
    /\ \A i \in 1..3 : samples[i].energy_now_wh = Some(F(61 - i))
    /\ \A i \in 1..3 : samples[i].status = None
    /\ iter = 2
    /\ previous = Some(samples[2])
    /\ discharge = RateAccumulatorDefault
    /\ Examining
    /\ Current = samples[3]

\* the rate is absent or strictly positive
AbsentOrPositive(rate) == rate # None => RatLt(F(0), Unwrap(rate))

\* an accumulator holds energy exactly when it holds time, and neither is negative
EnergyWithTime(acc) ==
    /\ RatLe(F(0), acc.delta)
    /\ RatLe(F(0), acc.hours)
    /\ acc.delta = F(0) <=> acc.hours = F(0)

\* C28: an examined pair changes at most one of the two accumulators, and a
\* pair whose energy_now is the same in both samples changes neither; each
\* accumulator so holds energy exactly when it holds time, and a rate that is
\* returned is strictly positive.
C28_OneAccumulatorPositiveRates ==
    /\ [][Examining =>
             /\ discharge' = discharge \/ charge' = charge
             /\ Current.energy_now_wh = Unwrap(previous).energy_now_wh =>
                    (discharge' = discharge /\ charge' = charge)]_vars
    /\ [](EnergyWithTime(discharge) /\ EnergyWithTime(charge))
    /\ [](rpc = "done" =>
             /\ AbsentOrPositive(Unwrap(rates).discharge_w)
             /\ AbsentOrPositive(Unwrap(rates).charge_w))

\* 60 Wh at 0 s and at 300 s, then 59 Wh at 601 s, no status: the flat pair
\* adds nothing, the last pair is rejected for its gap, no rate is returned
C28_Witness ==
    /\ rpc = "done"
    /\ Len(samples) = 3
    /\ samples[1].ts = 0 /\ samples[2].ts = 300 /\ samples[3].ts = 601
    /\ samples[1].energy_now_wh = Some(F(60))
    /\ samples[2].energy_now_wh = Some(F(60))
    /\ samples[3].energy_now_wh = Some(F(59))
    /\ \A i \in 1..3 : samples[i].status = None
    /\ discharge = RateAccumulatorDefault
    /\ charge = RateAccumulatorDefault
    /\ rates = Some([discharge_w |-> None, charge_w |-> None])

\* a pair of equal timestamps, then 1 Wh less after 300 s: 12 W
C28_PositiveRateReached ==
    /\ rpc = "done"
    /\ Len(samples) = 3
    /\ samples[1].ts = 0 /\ samples[2].ts = 0 /\ samples[3].ts = 300
    /\ samples[2].energy_now_wh = Some(F(60))
    /\ samples[3].energy_now_wh = Some(F(59))
    /\ Unwrap(rates).discharge_w = Some(F(12))
    /\ Unwrap(rates).charge_w = None

(***************************************************************************)
(* Claims about the order of the merge input                               *)
(***************************************************************************)
\* the input with the readings at positions i and i + 1 exchanged; every
\* permutation is a product of such exchanges
Exchanged(input, i) ==
    [j \in 1..Len(input) |->
        IF j = i THEN input[i + 1] ELSE IF j = i + 1 THEN input[i] ELSE input[j]]

\* the merged samples agree in number, timestamp, kind, source label and status
SameLabels(a, b) ==
    /\ Len(a) = Len(b)
    /\ \A j \in 1..Len(a) :
          /\ a[j].ts = b[j].ts
          /\ a[j].kind = b[j].kind
          /\ a[j].source = b[j].source
          /\ a[j].unit = b[j].unit
          /\ a[j].status = b[j].status

\* no kind has more than two values present at one timestamp
AtMostTwoAddends ==
    \A ts \in Timestamps, kind \in Kinds :
        Cardinality({j \in 1..Len(metrics) :
                        /\ metrics[j].ts = ts
                        /\ metrics[j].kind = kind
                        /\ IsSome(metrics[j].value)}) <= 2

\* C29 as stated: exchanging two neighbouring readings of the input, and so
\* any permutation of it, leaves the merged values, statuses, source labels and
\* their ascending timestamp order as they are.
C29_OrderIndependent ==
    pc = "done" =>
        \A i \in 1..(Len(metrics) - 1) :
            aggregate_battery_metrics(Exchanged(metrics, i)) = aggregated

\* C29, amended: any permutation of the input produces the same timestamps in
\* the same ascending order, the same kinds, statuses and source labels, and
\* the same merged values whenever no kind has more than two values present at
\* one timestamp (with three or more the f64 sum depends on the order of its
\* additions).
C29_OrderIndependentLabels ==
    pc = "done" =>
        \A i \in 1..(Len(metrics) - 1) :
            LET permuted == aggregate_battery_metrics(Exchanged(metrics, i))
            IN  /\ SameLabels(permuted, aggregated)
                /\ AtMostTwoAddends => permuted = aggregated

\* the later tick first: 1 Wh of BAT1 at ts 2, 1 Wh of BAT0 at ts 1, 1 Wh of
\* BAT0 at ts 2 merge into 1 Wh at ts 1, then 2 Wh of BAT0+BAT1, mixed, at ts 2
C29_Witness ==
    /\ pc = "done"
    /\ Len(metrics) = 3
    /\ metrics[1] = MetricSample(2, BatteryEnergyNow, BAT1, Some(F(1)), "Wh", Some(Discharging))
    /\ metrics[2] = MetricSample(1, BatteryEnergyNow, BAT0, Some(F(1)), "Wh", Some(Charging))
    /\ metrics[3] = MetricSample(2, BatteryEnergyNow, BAT0, Some(F(1)), "Wh", Some(Charging))
    /\ aggregated =
          <<MetricSample(1, BatteryEnergyNow, BAT0, Some(F(1)), "Wh", Some(Charging)),
            MetricSample(2, BatteryEnergyNow, BAT0 \o <<Plus>> \o BAT1, Some(F(2)), "Wh",
                         Some(mixed))>>

\* 1 Wh, 1 Wh and 2^53 Wh at one tick sum to 2^53 + 2 Wh; with the last two
\* exchanged the sum is 2^53 Wh
C29_RoundingReached ==
    /\ pc = "done"
    /\ Len(metrics) = 3
    /\ \A j \in 1..3 : metrics[j].ts = 1 /\ metrics[j].kind = BatteryEnergyNow
    /\ metrics[1].value = Some(F(1))
    /\ metrics[2].value = Some(F(1))
    /\ metrics[3].value = Some(Huge(1, 0))
    /\ aggregated[1].value = Some(Huge(1, 2))
    /\ aggregate_battery_metrics(Exchanged(metrics, 2))[1].value = Some(Huge(1, 0))

====
